---------------------------- MODULE Spec2Model ----------------------------
(***************************************************************************)
(* A model of vg's genotypekit: the snarl finder (CactusSnarlFinder) that  *)
(* classifies the snarls of a cactus decomposition bottom-up, and the      *)
(* representative traversal finder that traces a backbone through a snarl  *)
(* and emits traversals.                                                   *)
(***************************************************************************)
EXTENDS Integers, Sequences, FiniteSets, TLC

(***************************************************************************)
(* Bounds of the model.                                                    *)
(***************************************************************************)
\* Most stSnarl records in one decomposition.
MaxSnarls == 2

\* Most interior nodes of a net graph searched on its own.
MaxInterior == 1

\* The most items (nodes or child snarls) on the path between the boundary
\* nodes of a site handed to a traversal finder.
MaxItems == 2

\* The longest node sequence.
MaxNodeLength == 2

\* The most nodes of an allele off the path.
MaxAltNodes == 1

(***************************************************************************)
(* Visits and net graph handles.                                           *)
(***************************************************************************)
\* The empty Snarl message of a node Visit.
NoSnarl == <<>>

\* A Visit to an oriented node.
NodeVisit(id, backward) ==
    [node_id |-> id, backward |-> backward, snarl |-> NoSnarl]

\* Visit(): the default-constructed Visit, node id 0.
NullVisit == NodeVisit(0, FALSE)

\* reverse(Visit): the same thing visited in the other orientation.
reverse(visit) == [visit EXCEPT !.backward = ~visit.backward]

\* NetGraph::get_handle: an oriented handle on a node of the net graph.
get_handle(id, is_reverse) == <<id, is_reverse>>

\* NetGraph::flip: the same node in the other orientation.
flip(handle) == <<handle[1], ~handle[2]>>

\* The order in which follow_edges reports the neighbours of a handle is the
\* graph implementation's; the model lets it be either of two orders.
Orders == {"ascending", "descending"}

HandleRank(handle) == 2 * handle[1] + (IF handle[2] THEN 1 ELSE 0)

\* The elements of a set of handles as a sequence in the given order.
RECURSIVE InOrder(_, _)
InOrder(handles, ord) ==
    IF handles = {} THEN <<>>
    ELSE LET pick == CHOOSE h \in handles :
                        \A o \in handles :
                            IF ord = "ascending"
                            THEN HandleRank(h) <= HandleRank(o)
                            ELSE HandleRank(h) >= HandleRank(o)
         IN <<pick>> \o InOrder(handles \ {pick}, ord)

\* NetGraph::follow_edges(here, false, ...): the handles one step to the
\* right of here, in iteration order.  A net graph is a set of
\* <<from, to>> pairs of handles.
follow_edges(net_graph, here, ord) ==
    InOrder({e[2] : e \in {x \in net_graph : x[1] = here}}, ord)

(***************************************************************************)
(* The connectivity searches of recursively_emit_snarls.                   *)
(***************************************************************************)
\* handle_edge applied to each reported neighbour in turn: "whenever we see
\* a new node orientation, queue it".
RECURSIVE handle_edges(_, _, _)
handle_edges(others, queue, queued) ==
    IF others = <<>> THEN [queue |-> queue, queued |-> queued]
    ELSE IF Head(others) \in queued
         THEN handle_edges(Tail(others), queue, queued)
         ELSE handle_edges(Tail(others), Append(queue, Head(others)),
                           queued \cup {Head(others)})

\* A faulty handle_edge loop: only the first neighbour not yet seen is queued.
handle_edges_FirstOnly(others, queue, queued) ==
    IF others = <<>> THEN [queue |-> queue, queued |-> queued]
    ELSE IF Head(others) \in queued
         THEN [queue |-> queue, queued |-> queued]
         ELSE [queue |-> Append(queue, Head(others)),
               queued |-> queued \cup {Head(others)}]

\* The loop of follow_edges calling handle_edge on each neighbour.
queue_neighbours(others, queue, queued) == handle_edges(others, queue, queued)

\* A faulty exit test of the first search: stop at the first hit.
StartSearchDone_Either(connected_start_end, connected_start_start) ==
    connected_start_end \/ connected_start_start

\* "No more searching needed": the first search stops once both the
\* through connection and the start turnaround are found.
StartSearchDone(connected_start_end, connected_start_start) ==
    connected_start_end /\ connected_start_start

\* The first while loop: the walk from start_handle looking for end_handle
\* and for flip(start_handle).
RECURSIVE StartSearch(_, _, _, _, _, _, _, _)
StartSearch(net_graph, start_handle, end_handle, ord, queue, queued, connected_start_end, connected_start_start) ==
    IF queue = <<>>
    THEN [start_end |-> connected_start_end, start_start |-> connected_start_start]
    ELSE LET here == Head(queue)
             se == connected_start_end \/ here = end_handle
             ss == connected_start_start \/ here = flip(start_handle)
         IN IF StartSearchDone(se, ss)
            THEN [start_end |-> se, start_start |-> ss]
            ELSE LET q == queue_neighbours(follow_edges(net_graph, here, ord),
                                       Tail(queue), queued)
                 IN StartSearch(net_graph, start_handle, end_handle, ord,
                                q.queue, q.queued, se, ss)

\* The second while loop: the walk from flip(end_handle) looking for
\* end_handle.
RECURSIVE EndSearch(_, _, _, _, _)
EndSearch(net_graph, end_handle, ord, queue, queued) ==
    IF queue = <<>> THEN FALSE
    ELSE LET here == Head(queue)
         IN IF here = end_handle THEN TRUE
            ELSE LET q == queue_neighbours(follow_edges(net_graph, here, ord),
                                       Tail(queue), queued)
                 IN EndSearch(net_graph, end_handle, ord, q.queue, q.queued)

\* The connectivity block: both searches over the net graph that uses
\* internal connectivity, giving the three flags saved on the snarl.
Connectivity(net_graph, start, end, ord) ==
    LET start_handle == get_handle(start.node_id, start.backward)
        end_handle == get_handle(end.node_id, end.backward)
        first == StartSearch(net_graph, start_handle, end_handle, ord,
                             <<start_handle>>, {start_handle}, FALSE, FALSE)
        end_inward == flip(end_handle)
        connected_end_end == EndSearch(net_graph, end_handle, ord,
                                       <<end_inward>>, {end_inward})
    IN [start_self_reachable |-> first.start_start,
        end_self_reachable |-> connected_end_end,
        start_end_reachable |-> first.start_end]

\* The handles reachable from a set of handles by walks of any length.
RECURSIVE ReachableFrom(_, _)
ReachableFrom(net_graph, handles) ==
    LET more == handles \cup {e[2] : e \in {x \in net_graph : x[1] \in handles}}
    IN IF more = handles THEN handles ELSE ReachableFrom(net_graph, more)

\* algorithms::is_directed_acyclic: no handle lies on a directed cycle.
is_directed_acyclic(net_graph) ==
    \A e \in net_graph : e[1] \notin ReachableFrom(net_graph, {e[2]})

(***************************************************************************)
(* The classification of recursively_emit_snarls.                          *)
(***************************************************************************)
\* A faulty classification: the acyclicity of the net graph is not consulted.
SnarlType_NoAcyclicCheck(start, end, flags, acyclic, child_types) ==
    IF start.node_id = end.node_id THEN "UNARY"
    ELSE IF ~flags.start_end_reachable THEN "UNCLASSIFIED"
    ELSE IF flags.start_self_reachable \/ flags.end_self_reachable
         THEN "UNCLASSIFIED"
    ELSE IF \E t \in child_types : t # "ULTRABUBBLE" THEN "UNCLASSIFIED"
    ELSE "ULTRABUBBLE"

\* A faulty classification: the end turnaround is not looked at.
SnarlType_NoEndCheck(start, end, flags, acyclic, child_types) ==
    IF start.node_id = end.node_id THEN "UNARY"
    ELSE IF ~flags.start_end_reachable THEN "UNCLASSIFIED"
    ELSE IF flags.start_self_reachable THEN "UNCLASSIFIED"
    ELSE IF \E t \in child_types : t # "ULTRABUBBLE" THEN "UNCLASSIFIED"
    ELSE IF ~acyclic THEN "UNCLASSIFIED"
    ELSE "ULTRABUBBLE"

\* A faulty classification: boundaries compared as whole Visits.
SnarlType_VisitEquality(start, end, flags, acyclic, child_types) ==
    IF start = end THEN "UNARY"
    ELSE IF ~flags.start_end_reachable THEN "UNCLASSIFIED"
    ELSE IF flags.start_self_reachable \/ flags.end_self_reachable
         THEN "UNCLASSIFIED"
    ELSE IF \E t \in child_types : t # "ULTRABUBBLE" THEN "UNCLASSIFIED"
    ELSE IF ~acyclic THEN "UNCLASSIFIED"
    ELSE "ULTRABUBBLE"

\* A faulty classification: the children's types are not looked at.
SnarlType_NoChildCheck(start, end, flags, acyclic, child_types) ==
    IF start.node_id = end.node_id THEN "UNARY"
    ELSE IF ~flags.start_end_reachable THEN "UNCLASSIFIED"
    ELSE IF flags.start_self_reachable \/ flags.end_self_reachable
         THEN "UNCLASSIFIED"
    ELSE IF ~acyclic THEN "UNCLASSIFIED"
    ELSE "ULTRABUBBLE"

\* "Now we need to work out if the snarl can be a unary snarl or an
\* ultrabubble or what": the if/else chain that sets the type.
SnarlType(start, end, flags, acyclic, child_types) ==
    IF start.node_id = end.node_id THEN "UNARY"
    ELSE IF ~flags.start_end_reachable THEN "UNCLASSIFIED"
    ELSE IF flags.start_self_reachable \/ flags.end_self_reachable
         THEN "UNCLASSIFIED"
    ELSE IF \E t \in child_types : t # "ULTRABUBBLE" THEN "UNCLASSIFIED"
    ELSE IF ~acyclic THEN "UNCLASSIFIED"
    ELSE "ULTRABUBBLE"

(***************************************************************************)
(* The state.                                                              *)
(***************************************************************************)
VARIABLES
    decomposition,  \* the stSnarlDecomposition and the graph it was made from
    status,         \* find_snarls: "idle", "running" or "done"
    stack,          \* the frames of recursively_emit_snarls, innermost last
    destination,    \* the SnarlManager being filled
    events,         \* the add_snarl and add_chain calls made, in order
    run,            \* 1 in the first run of find_snarls, 2 in the second
    first_result,   \* the (start, end, type) triples of the first run
    net_input,      \* a snarl's boundaries and its connectivity net graph
    net_flags,      \* the flags the searches saved for it, once they ran
    call,           \* a call of find_traversals: the finder, the site, its graph
    trav,           \* the state of that call
    bubble_call,    \* a call of find_bubble: the seed, the site, the limits
    bubble,         \* the state of that call
    splice_call,    \* a reference path and the bubble paths found on it
    splice,         \* the state of splicing them into it
    arith,          \* two Supports and what a function made of them
    split,          \* a split of items over categories, and advance_split on it
    sampling,       \* a call of multinomial_censored_sampling_prob_ln
    exhaustive,     \* a call of ExhaustiveTraversalFinder::add_traversals
    path_finder     \* a call of PathBasedTraversalFinder::find_traversals

finder_vars ==
    <<decomposition, status, stack, destination, events, run, first_result>>

search_vars == <<net_input, net_flags>>

traversal_vars == <<call, trav>>

bubble_vars == <<bubble_call, bubble>>

splice_vars == <<splice_call, splice>>

\* The state of the functions and finders that are called on their own.
alone_vars == <<arith, split, sampling, exhaustive, path_finder>>

\* What the steps of one part of the program leave alone.
outside_finder ==
    <<search_vars, traversal_vars, bubble_vars, splice_vars, alone_vars>>
outside_search ==
    <<finder_vars, traversal_vars, bubble_vars, splice_vars, alone_vars>>
outside_traversal ==
    <<finder_vars, search_vars, bubble_vars, splice_vars, alone_vars>>
outside_bubble ==
    <<finder_vars, search_vars, traversal_vars, splice_vars, alone_vars>>
outside_splice ==
    <<finder_vars, search_vars, traversal_vars, bubble_vars, alone_vars>>
outside_alone ==
    <<finder_vars, search_vars, traversal_vars, bubble_vars, splice_vars>>

(***************************************************************************)
(* The decomposition handed to recursively_emit_snarls.  Snarl s of it has *)
(* a parent (0: top level), the index of its chain in the parent's chains  *)
(* list (0: it is in the parent's unarySnarls list), its two CactusSides,  *)
(* and the net graphs NetGraph builds for it from the graph.               *)
(***************************************************************************)
\* The node ids of snarl s: its start boundary, its end boundary (the lower
\* id, so that neither iteration order always meets the start first) and an
\* interior node.
StartNode(s) == 3 * s - 1
EndNode(s) == 3 * s - 2
InteriorNode(s) == 3 * s

CactusSide(node, is_end) == [node |-> node, is_end |-> is_end]

\* The edgeEnd1/edgeEnd2 objects a snarl can carry: a unary snarl is bounded
\* by one side twice, a chain snarl by sides of two nodes or by the two
\* sides of one node.
SidePairs(s, in_unary_list) ==
    IF in_unary_list
    THEN {<<CactusSide(StartNode(s), TRUE), CactusSide(StartNode(s), TRUE)>>}
    ELSE {<<CactusSide(StartNode(s), TRUE), CactusSide(EndNode(s), FALSE)>>,
          <<CactusSide(StartNode(s), TRUE), CactusSide(StartNode(s), FALSE)>>}

\* "Convert from CactusSide (the interior endpoint of each node) to Visit
\* (inward at start, outward at end)".
child_start(cac_child_side1) ==
    NodeVisit(cac_child_side1.node, ~cac_child_side1.is_end)

child_end(cac_child_side2) ==
    NodeVisit(cac_child_side2.node, cac_child_side2.is_end)

\* A bidirected graph read as a net graph: each edge can be followed both
\* ways round.
Bidirected(edges) == edges \cup {<<flip(e[2]), flip(e[1])>> : e \in edges}

\* The net graphs the model tries, by the role of each handle: S the start
\* handle, E the end handle, M an interior node.
NetGraphOf(kind, S, E, M) ==
    LET through == {<<S, M>>, <<M, E>>}
    IN Bidirected(
        CASE kind = "through" -> through
          [] kind = "blocked" -> {<<S, M>>}
          [] kind = "start_turn" -> through \cup {<<M, flip(S)>>}
          [] kind = "end_turn" -> through \cup {<<flip(E), M>>}
          [] kind = "cyclic" -> through \cup {<<M, M>>})

\* The pairs (net graph with internal connectivity, flat net graph) tried.
GraphKindPairs ==
    {<<"through", "through">>, <<"through", "cyclic">>,
     <<"blocked", "through">>, <<"start_turn", "through">>,
     <<"end_turn", "through">>}

\* The children of p that sit in its chains list use the chain indices
\* 1..m, numbered in the order in which the chains first appear.
ChainIndicesOk(n, parent, chain) ==
    \A s \in 1..n :
        chain[s] # 0 =>
            LET before == {chain[x] : x \in {y \in 1..(s - 1) :
                                               parent[y] = parent[s]}} \ {0}
            IN chain[s] \in before \cup {Cardinality(before) + 1}

HandleOf(visit) == get_handle(visit.node_id, visit.backward)

MakeDecomposition(graph_size, n, parent, chain, sides, kinds) ==
    [graph_size |-> graph_size, n |-> n, parent |-> parent, chain |-> chain,
     side1 |-> [s \in 1..n |-> sides[s][1]],
     side2 |-> [s \in 1..n |-> sides[s][2]],
     net |-> [s \in 1..n |->
                NetGraphOf(kinds[s][1], HandleOf(child_start(sides[s][1])),
                           HandleOf(child_end(sides[s][2])),
                           get_handle(InteriorNode(s), FALSE))],
     flat |-> [s \in 1..n |->
                NetGraphOf(kinds[s][2], HandleOf(child_start(sides[s][1])),
                           HandleOf(child_end(sides[s][2])),
                           get_handle(InteriorNode(s), FALSE))]]

\* The ids of a set of snarls in increasing order.
RECURSIVE SortedIds(_)
SortedIds(ids) ==
    IF ids = {} THEN <<>>
    ELSE LET least == CHOOSE s \in ids : \A o \in ids : s <= o
         IN <<least>> \o SortedIds(ids \ {least})

ChildrenOf(d, p) == {s \in 1..d.n : d.parent[s] = p}

\* snarl->chains (topLevelChains for p = 0): a list of chains, each a list
\* of snarls.
chains_list(d, p) ==
    LET m == Cardinality({d.chain[s] : s \in ChildrenOf(d, p)} \ {0})
    IN [c \in 1..m |-> SortedIds({s \in ChildrenOf(d, p) : d.chain[s] = c})]

\* snarl->unarySnarls (topLevelUnarySnarls for p = 0).
unary_snarls_list(d, p) ==
    SortedIds({s \in ChildrenOf(d, p) : d.chain[s] = 0})

(***************************************************************************)
(* The SnarlManager, as recursively_emit_snarls uses it.                   *)
(***************************************************************************)
\* A pointer to a managed snarl is its index in destination.snarls; 0 is
\* the null pointer.
nullptr == 0

EmptySnarlManager == [snarls |-> <<>>, chains |-> <<>>]

\* The default-constructed Snarl message.
EmptySnarl ==
    [start |-> NullVisit, end |-> NullVisit,
     parent |-> [start |-> NullVisit, end |-> NullVisit],
     type |-> "UNCLASSIFIED",
     start_self_reachable |-> FALSE, end_self_reachable |-> FALSE,
     start_end_reachable |-> FALSE, directed_acyclic_net_graph |-> FALSE]

\* SnarlManager::add_snarl: keep a copy of the snarl.
add_snarl(manager, snarl) ==
    [manager EXCEPT !.snarls = Append(@, snarl)]

\* SnarlManager::add_chain, called for each chain of child_chains in turn.
RECURSIVE add_chains(_, _, _)
add_chains(manager, child_chains, managed) ==
    IF child_chains = <<>> THEN manager
    ELSE add_chains(
            [manager EXCEPT !.chains =
                Append(@, [chain |-> Head(child_chains), parent |-> managed])],
            Tail(child_chains), managed)

\* The (start, end, type) triples of the snarls of a manager.
Triples(manager) ==
    {<<manager.snarls[k].start, manager.snarls[k].end, manager.snarls[k].type>> :
        k \in 1..Len(manager.snarls)}

(***************************************************************************)
(* recursively_emit_snarls, one frame per call.                            *)
(***************************************************************************)
\* A call of recursively_emit_snarls on stSnarl id (0: the fake root), at
\* the start of its loops over the child chains and the child unary snarls.
Frame(id, start, end, parent_start, parent_end) ==
    [id |-> id, start |-> start, end |-> end,
     parent_start |-> parent_start, parent_end |-> parent_end,
     i |-> 1, j |-> 1, u |-> 1, child_chains |-> <<>>]

\* The call made for child stSnarl c from the frame caller.
ChildFrame(d, caller, c) ==
    Frame(c, child_start(d.side1[c]), child_end(d.side2[c]),
          caller.start, caller.end)

\* "This is the snarl we are filling in to add to the SnarlManger, or an
\* empty snarl if we're a fake root snarl."
LocalSnarl(frame) ==
    IF frame.start.node_id # 0 /\ frame.end.node_id # 0
    THEN [EmptySnarl EXCEPT
            !.start = frame.start, !.end = frame.end,
            !.parent = IF frame.parent_start.node_id # 0
                          /\ frame.parent_end.node_id # 0
                       THEN [start |-> frame.parent_start,
                             end |-> frame.parent_end]
                       ELSE @]
    ELSE EmptySnarl

\* "This snarl is real, we care about type and connectivity."
IsReal(snarl) == snarl.start.node_id # 0 \/ snarl.end.node_id # 0

\* The types read through the pointers of child_chains.
ChildTypes(manager, child_chains) ==
    {manager.snarls[child_chains[c][k]].type :
        <<c, k>> \in {p \in (1..Len(child_chains)) \X (1..MaxSnarls) :
                        p[2] <= Len(child_chains[p[1]])}}

\* The two NetGraph objects built for a snarl.
connectivity_net_graph(d, id) == d.net[id]
flat_net_graph(d, id) == d.flat[id]

\* The snarl of a frame with connectivity, acyclicity and type filled in.
ClassifiedSnarl(d, manager, frame, ord) ==
    LET flags == Connectivity(connectivity_net_graph(d, frame.id),
                              frame.start, frame.end, ord)
        acyclic == is_directed_acyclic(flat_net_graph(d, frame.id))
    IN [LocalSnarl(frame) EXCEPT
            !.start_self_reachable = flags.start_self_reachable,
            !.end_self_reachable = flags.end_self_reachable,
            !.start_end_reachable = flags.start_end_reachable,
            !.directed_acyclic_net_graph = acyclic,
            !.type = SnarlType(frame.start, frame.end, flags, acyclic,
                               ChildTypes(manager, frame.child_chains))]

\* A faulty loop test: only the loop over the chains is waited for.
ChildrenEmitted_ChainsOnly(d, frame) ==
    frame.i > Len(chains_list(d, frame.id))

\* Both loops over the children have run to their end.
ChildrenEmitted(d, frame) ==
    /\ frame.i > Len(chains_list(d, frame.id))
    /\ frame.u > Len(unary_snarls_list(d, frame.id))

\* chain.push_back(<the returned pointer>) in the caller, and its loop
\* counters moved on.
AfterReturn(d, caller, managed) ==
    LET cl == chains_list(d, caller.id)
        last == Len(caller.child_chains)
        pushed == [caller.child_chains EXCEPT ![last] = Append(@, managed)]
    IN IF caller.i <= Len(cl)
       THEN IF caller.j < Len(cl[caller.i])
            THEN [caller EXCEPT !.child_chains = pushed, !.j = @ + 1]
            ELSE [caller EXCEPT !.child_chains = pushed, !.i = @ + 1, !.j = 1]
       ELSE [caller EXCEPT !.child_chains = pushed, !.u = @ + 1]

\* The add_chain calls of a frame as events.
ChainEvents(child_chains, managed) ==
    [c \in 1..Len(child_chains) |->
        [op |-> "add_chain", id |-> 0, snarl |-> nullptr,
         chain |-> child_chains[c], parent |-> managed]]

Top == stack[Len(stack)]

(***************************************************************************)
(* find_snarls and the steps of recursively_emit_snarls.                   *)
(***************************************************************************)
\* find_snarls up to its call of recursively_emit_snarls on the fake root;
\* an empty graph gives an empty SnarlManager at once.
FindSnarls ==
    /\ status = "idle"
    /\ destination' = EmptySnarlManager
    /\ events' = <<>>
    /\ IF decomposition.graph_size = 0
       THEN /\ status' = "done"
            /\ stack' = <<>>
       ELSE /\ status' = "running"
            /\ stack' = <<Frame(0, NullVisit, NullVisit, NullVisit, NullVisit)>>
    /\ UNCHANGED <<decomposition, run, first_result, outside_finder>>

\* The loop over the child chains, up to the recursive call for the next
\* child snarl of the current chain.
EmitChainChild ==
    /\ status = "running"
    /\ Top.i <= Len(chains_list(decomposition, Top.id))
    /\ LET c == chains_list(decomposition, Top.id)[Top.i][Top.j]
           caller == IF Top.j = 1
                     THEN [Top EXCEPT !.child_chains = Append(@, <<>>)]
                     ELSE Top
       IN stack' = Append([stack EXCEPT ![Len(stack)] = caller],
                          ChildFrame(decomposition, caller, c))
    /\ UNCHANGED <<decomposition, status, destination, events, run,
                   first_result, outside_finder>>

\* The loop over the child unary snarls, up to the recursive call for the
\* next one, which gets a trivial chain of its own.
EmitUnaryChild ==
    /\ status = "running"
    /\ Top.i > Len(chains_list(decomposition, Top.id))
    /\ Top.u <= Len(unary_snarls_list(decomposition, Top.id))
    /\ LET c == unary_snarls_list(decomposition, Top.id)[Top.u]
           caller == [Top EXCEPT !.child_chains = Append(@, <<>>)]
       IN stack' = Append([stack EXCEPT ![Len(stack)] = caller],
                          ChildFrame(decomposition, caller, c))
    /\ UNCHANGED <<decomposition, status, destination, events, run,
                   first_result, outside_finder>>

\* The rest of the call once the children are done: connectivity, type and
\* add_snarl for a real snarl, add_chain for every child chain, and the
\* return of the managed pointer to the caller.
ClassifyAndReturn ==
    /\ status = "running"
    /\ ChildrenEmitted(decomposition, Top)
    /\ \E ord \in Orders :
        LET real == IsReal(LocalSnarl(Top))
            snarl == IF real
                     THEN ClassifiedSnarl(decomposition, destination, Top, ord)
                     ELSE EmptySnarl
            added == IF real THEN add_snarl(destination, snarl) ELSE destination
            managed == IF real THEN Len(added.snarls) ELSE nullptr
            snarl_event == IF real
                           THEN <<[op |-> "add_snarl", id |-> Top.id,
                                   snarl |-> managed, chain |-> <<>>,
                                   parent |-> nullptr]>>
                           ELSE <<>>
        IN /\ destination' = add_chains(added, Top.child_chains, managed)
           /\ events' = events \o snarl_event
                               \o ChainEvents(Top.child_chains, managed)
           /\ IF Len(stack) = 1
              THEN /\ stack' = <<>>
                   /\ status' = "done"
              ELSE /\ stack' = [SubSeq(stack, 1, Len(stack) - 1)
                                  EXCEPT ![Len(stack) - 1] =
                                    AfterReturn(decomposition, @, managed)]
                   /\ status' = status
    /\ UNCHANGED <<decomposition, run, first_result, outside_finder>>

\* find_snarls called a second time on the same graph.
FindSnarlsAgain ==
    /\ status = "done"
    /\ run = 1
    /\ first_result' = Triples(destination)
    /\ run' = 2
    /\ status' = "idle"
    /\ UNCHANGED <<decomposition, stack, destination, events, outside_finder>>

FinderInit ==
    /\ \E n \in 0..MaxSnarls :
       \E graph_size \in (IF n = 0 THEN {0, 1} ELSE {1}) :
       \E parent \in {f \in [1..n -> 0..n] : \A s \in 1..n : f[s] < s} :
       \E chain \in {f \in [1..n -> 0..n] : ChainIndicesOk(n, parent, f)} :
       \E sides \in {f \in [1..n -> UNION {SidePairs(s, b) :
                                              s \in 1..n, b \in BOOLEAN}] :
                        \A s \in 1..n : f[s] \in SidePairs(s, chain[s] = 0)} :
       \E kinds \in [1..n -> GraphKindPairs] :
          decomposition =
            MakeDecomposition(graph_size, n, parent, chain, sides, kinds)
    /\ status = "idle"
    /\ stack = <<>>
    /\ destination = EmptySnarlManager
    /\ events = <<>>
    /\ run = 1
    /\ first_result = {}

FinderNext ==
    \/ FindSnarls
    \/ EmitChainChild
    \/ EmitUnaryChild
    \/ ClassifyAndReturn
    \/ FindSnarlsAgain

(***************************************************************************)
(* The connectivity searches on their own, over every net graph on the     *)
(* boundary handles and up to MaxInterior interior nodes.                  *)
(***************************************************************************)
InteriorHandles == {get_handle(2 + m, FALSE) : m \in 1..MaxInterior}

\* The edges a net graph of the model may have, S being the start handle
\* and E the end handle.
CandidateEdges(S, E) ==
    {<<S, E>>}
    \cup UNION {{<<S, M>>, <<M, E>>, <<M, flip(S)>>, <<flip(E), M>>,
                 <<M, flip(M)>>, <<flip(M), flip(S)>>} : M \in InteriorHandles}
    \cup {<<M, N>> \in InteriorHandles \X InteriorHandles : M[1] < N[1]}

NoFlags == [computed |-> FALSE]

SearchInit ==
    /\ \E start \in {NodeVisit(1, FALSE), NodeVisit(1, TRUE)} :
       \E end \in {NodeVisit(2, FALSE), NodeVisit(2, TRUE),
                   NodeVisit(1, FALSE), NodeVisit(1, TRUE)} :
       \E net_graph \in SUBSET CandidateEdges(HandleOf(start), HandleOf(end)) :
          net_input = [start |-> start, end |-> end, net_graph |-> net_graph]
    /\ net_flags = NoFlags

\* The "First determine connectivity" block run on the input.
DetermineConnectivity ==
    /\ ~net_flags.computed
    /\ \E ord \in Orders :
          net_flags' = [computed |-> TRUE, ord |-> ord,
                        flags |-> Connectivity(net_input.net_graph,
                                               net_input.start,
                                               net_input.end, ord)]
    /\ UNCHANGED <<net_input, outside_search>>

\* The same snarl searched again (the block keeps no state between runs).
SearchAgain ==
    /\ net_flags.computed
    /\ net_flags' = NoFlags
    /\ UNCHANGED <<net_input, outside_search>>

SearchNext == DetermineConnectivity \/ SearchAgain

(***************************************************************************)
(* The traversal finders.  A call hands find_traversals a site: a snarl    *)
(* with the primary path through it, its child snarls along that path, the *)
(* snarls next to it in its chain, and at most one allele off the path.    *)
(***************************************************************************)
\* A Support: the reads on each strand and a quality.
make_support(forward, backward, quality) ==
    [forward |-> forward, reverse |-> backward, left |-> 0, right |-> 0,
     quality |-> quality]

\* Support(), the support of what no read touches.
NoSupport == make_support(0, 0, 0)

total(support) == support.forward + support.reverse

\* SupportAugmentedGraph::get_support on the node or the edge supports.
get_support(supports, item) ==
    IF item \in DOMAIN supports THEN supports[item] ELSE NoSupport

\* SupportAugmentedGraph::has_supports.
has_supports(node_supports, edge_supports) ==
    DOMAIN node_supports # {} \/ DOMAIN edge_supports # {}

\* A Visit to a child snarl, holding the child's start and end.
SnarlVisit(child, backward) ==
    [node_id |-> 0, backward |-> backward,
     snarl |-> [start |-> child.start, end |-> child.end]]

\* What lies on the path between the boundary nodes of the site, item by
\* item: a node of the site itself, a child snarl, a child snarl with an
\* interior node on the path, or either kind of child starting on the end
\* node of the child before it.
ItemKinds ==
    {"node", "child", "long_child", "abutting_child", "long_abutting_child"}

IsChild(kind) == kind # "node"
Abuts(kind) == kind \in {"abutting_child", "long_abutting_child"}
IsLong(kind) == kind \in {"long_child", "long_abutting_child"}

Layouts ==
    {l \in UNION {[1..n -> ItemKinds] : n \in 0..MaxItems} :
        \A k \in DOMAIN l : Abuts(l[k]) => (k > 1 /\ IsChild(l[k - 1]))}

\* Node ids: the site's boundaries, the nodes of item k, the nodes of the
\* path before and after the site, and the nodes off the path.
SiteNodes == [start |-> 1, end |-> 2]
ItemFirst(k) == 3 * k
ItemInterior(k) == 3 * k + 1
ItemLast(k) == 3 * k + 2
FlankNodes == [before |-> 3 * MaxItems + 3, after |-> 3 * MaxItems + 4]
AltNode(a) == 3 * MaxItems + 4 + a

ItemStart(layout, k) ==
    IF Abuts(layout[k]) THEN ItemLast(k - 1) ELSE ItemFirst(k)

\* The nodes item k adds to the path, in the site's orientation.
ItemNodes(layout, k) ==
    (IF Abuts(layout[k]) THEN <<>> ELSE <<ItemFirst(k)>>)
    \o (IF IsLong(layout[k]) THEN <<ItemInterior(k)>> ELSE <<>>)
    \o (IF IsChild(layout[k]) THEN <<ItemLast(k)>> ELSE <<>>)

RECURSIVE ItemsPath(_, _)
ItemsPath(layout, k) ==
    IF k > Len(layout) THEN <<>>
    ELSE ItemNodes(layout, k) \o ItemsPath(layout, k + 1)

\* The nodes from the site's start to its end along the path.
SitePath(layout) ==
    <<SiteNodes.start>> \o ItemsPath(layout, 1) \o <<SiteNodes.end>>

Reversed(seq) == [i \in 1..Len(seq) |-> seq[Len(seq) + 1 - i]]

SeqRange(seq) == {seq[i] : i \in 1..Len(seq)}

\* The primary path: through the site alone or, in a chain, on through the
\* neighbouring snarls; along the site's orientation or against it.
PrimaryPath(layout, in_chain, path_backward) ==
    LET nodes == (IF in_chain THEN <<FlankNodes.before>> ELSE <<>>)
                 \o SitePath(layout)
                 \o (IF in_chain THEN <<FlankNodes.after>> ELSE <<>>)
    IN IF path_backward
       THEN [i \in 1..Len(nodes) |-> NodeVisit(Reversed(nodes)[i], TRUE)]
       ELSE [i \in 1..Len(nodes) |-> NodeVisit(nodes[i], FALSE)]

\* Node::sequence().size(), under one of two length schemes.
LengthSchemes == {"unit", "varied"}

sequence_size(scheme, node_id) ==
    IF scheme = "unit" THEN 1 ELSE 1 + (node_id % MaxNodeLength)

\* The offset at which the k-th mapping of a path starts.
RECURSIVE PathOffset(_, _, _)
PathOffset(mappings, scheme, k) ==
    IF k = 1 THEN 0
    ELSE PathOffset(mappings, scheme, k - 1)
         + sequence_size(scheme, mappings[k - 1].node_id)

\* PathIndex(path): by_start maps the start offset of each mapping to its
\* oriented node, by_id maps each node to its offset and orientation.
PathIndex(mappings, scheme) ==
    LET at(o) == CHOOSE k \in 1..Len(mappings) :
                    PathOffset(mappings, scheme, k) = o
        of(n) == CHOOSE k \in 1..Len(mappings) : mappings[k].node_id = n
    IN [by_start |->
            [o \in {PathOffset(mappings, scheme, k) : k \in 1..Len(mappings)}
                |-> mappings[at(o)]],
        by_id |->
            [n \in {mappings[k].node_id : k \in 1..Len(mappings)}
                |-> [first |-> PathOffset(mappings, scheme, of(n)),
                     second |-> mappings[of(n)].backward]]]

NoIndex == [by_start |-> <<>>, by_id |-> <<>>]

\* std::map::lower_bound on by_start: the first entry at or after key.
lower_bound(by_start, key) ==
    LET later == {o \in DOMAIN by_start : o >= key}
    IN IF later = {} THEN [is_end |-> TRUE, first |-> key]
       ELSE [is_end |-> FALSE,
             first |-> CHOOSE o \in later : \A p \in later : o <= p]

\* The child snarl item k stands for.
ChildSnarl(layout, k) ==
    [start |-> NodeVisit(ItemStart(layout, k), FALSE),
     end |-> NodeVisit(ItemLast(k), FALSE),
     type |-> "ULTRABUBBLE"]

ChildItems(layout) == {k \in DOMAIN layout : IsChild(layout[k])}

\* The site: a UNARY site ends on its start node reversed.
SiteSnarl(type) ==
    [start |-> NodeVisit(SiteNodes.start, FALSE),
     end |-> IF type = "UNARY" THEN NodeVisit(SiteNodes.start, TRUE)
             ELSE NodeVisit(SiteNodes.end, FALSE),
     type |-> type]

\* The snarls of the SnarlManager: the site first, then its children in
\* path order, then its two neighbours in the chain.
ManagedSnarls(layout, in_chain, type) ==
    <<SiteSnarl(type)>>
    \o [i \in 1..Cardinality(ChildItems(layout)) |->
            ChildSnarl(layout,
                CHOOSE k \in ChildItems(layout) :
                    Cardinality({j \in ChildItems(layout) : j < k}) = i - 1)]
    \o (IF in_chain
        THEN <<[start |-> NodeVisit(FlankNodes.before, FALSE),
                end |-> NodeVisit(SiteNodes.start, FALSE),
                type |-> "ULTRABUBBLE"],
               [start |-> SiteSnarl(type).end,
                end |-> NodeVisit(FlankNodes.after, FALSE),
                type |-> "ULTRABUBBLE"]>>
        ELSE <<>>)

\* SnarlManager::manage: the pointer to the manager's copy of the site.
manage(snarls, site) == CHOOSE p \in 1..Len(snarls) : snarls[p] = site

\* SnarlManager::children_of the site.
children_of(layout) == 2..(1 + Cardinality(ChildItems(layout)))

\* SnarlManager::into_which_snarl(Visit): the snarl that the visit reads
\* into, entering at its start or, reversed, at its end; or null.
into_which_snarl(snarls, visit) ==
    LET entered == {p \in 1..Len(snarls) :
                        \/ snarls[p].start = visit
                        \/ reverse(snarls[p].end) = visit}
    IN IF entered = {} THEN nullptr ELSE CHOOSE p \in entered : TRUE

\* SnarlManager::into_which_snarl(id, reverse).
into_which_snarl_at(snarls, node_id, is_reverse) ==
    into_which_snarl(snarls, NodeVisit(node_id, is_reverse))

\* An allele off the path: a deletion edge (via no node) or a run of nodes,
\* leaving the path after a node of the site and joining it again at one of
\* the next two.
AnchorNodes(layout) ==
    SelectSeq(SitePath(layout),
              LAMBDA n : \A k \in DOMAIN layout : n # ItemInterior(k))

NoAllele == [from |-> 0, via |-> <<>>, to |-> 0]

Alleles(layout) ==
    {[from |-> AnchorNodes(layout)[i], via |-> via,
      to |-> AnchorNodes(layout)[j]] :
        <<i, j>> \in {p \in (DOMAIN AnchorNodes(layout))
                            \X (DOMAIN AnchorNodes(layout)) :
                        p[1] < p[2] /\ p[2] <= p[1] + 2},
        via \in {<<>>, [a \in 1..MaxAltNodes |-> AltNode(a)]}}

\* SnarlManager::shallow_contents with the boundaries: the nodes of the site
\* that are not inside a child, the children's boundary nodes among them.
shallow_contents(layout, allele) ==
    SeqRange(AnchorNodes(layout)) \cup SeqRange(allele.via)

\* The edges of the graph in and around the site, each from the end of one
\* node to the start of the next.
RECURSIVE PathEdges(_)
PathEdges(nodes) ==
    IF Len(nodes) < 2 THEN {}
    ELSE {<<nodes[1], nodes[2]>>} \cup PathEdges(Tail(nodes))

GraphEdges(layout, in_chain, allele) ==
    PathEdges((IF in_chain THEN <<FlankNodes.before>> ELSE <<>>)
              \o SitePath(layout)
              \o (IF in_chain THEN <<FlankNodes.after>> ELSE <<>>))
    \cup (IF allele = NoAllele THEN {}
          ELSE PathEdges(<<allele.from>> \o allele.via \o <<allele.to>>))

\* VG::nodes_next: the oriented nodes that follow an oriented node.
nodes_next(edges, here, ord) ==
    InOrder(IF here[2]
            THEN {get_handle(e[1], TRUE) : e \in {x \in edges : x[2] = here[1]}}
            ELSE {get_handle(e[2], FALSE) : e \in {x \in edges : x[1] = here[1]}},
            ord)

\* to_visit(NodeTraversal).
to_visit(node_traversal) == NodeVisit(node_traversal[1], node_traversal[2])

\* to_node_traversal(Visit, graph).
to_node_traversal(visit) == get_handle(visit.node_id, visit.backward)

\* TrivialTraversalFinder::find_traversals, the walk back along previous
\* from the site's end to its start.
RECURSIVE TraceBack(_, _, _, _)
TraceBack(here, previous, site, path) ==
    IF here[1] = site.start.node_id THEN <<here>> \o path
    ELSE TraceBack(previous[here], previous, site, <<here>> \o path)

\* TrivialTraversalFinder::find_traversals, the loop over nodes_next(here).
RECURSIVE PushNext(_, _, _, _)
PushNext(nexts, here, to_visit_stack, previous) ==
    IF nexts = <<>> THEN [stack |-> to_visit_stack, previous |-> previous]
    ELSE IF Head(nexts) \in DOMAIN previous
         THEN PushNext(Tail(nexts), here, to_visit_stack, previous)
         ELSE PushNext(Tail(nexts), here, <<Head(nexts)>> \o to_visit_stack,
                       (Head(nexts) :> here) @@ previous)

\* TrivialTraversalFinder::find_traversals, the depth-first search: the
\* list of traversals to return, holding the first path found if any.
RECURSIVE TrivialSearch(_, _, _, _, _)
TrivialSearch(edges, site, ord, to_visit_stack, previous) ==
    IF to_visit_stack = <<>> THEN <<>>
    ELSE IF Head(to_visit_stack)[1] = site.end.node_id
         THEN LET path == TraceBack(Head(to_visit_stack), previous, site, <<>>)
              IN <<[i \in 1..Len(path) |-> to_visit(path[i])]>>
         ELSE LET pushed == PushNext(nodes_next(edges, Head(to_visit_stack), ord),
                                     Head(to_visit_stack), Tail(to_visit_stack), previous)
              IN TrivialSearch(edges, site, ord, pushed.stack, pushed.previous)

\* A faulty precondition: any classified snarl will do.
IsTraversable_AnyType(site) ==
    site.type \in {"ULTRABUBBLE", "UNARY", "UNCLASSIFIED"}

\* assert(site.type() == ULTRABUBBLE), the first statement of both finders.
IsTraversable(site) == site.type = "ULTRABUBBLE"

\* The traversals TrivialTraversalFinder::find_traversals returns for an
\* ULTRABUBBLE.
TrivialTraversals(edges, site, ord) ==
    TrivialSearch(edges, site, ord, <<to_node_traversal(site.start)>>,
                  [h \in {} |-> h])

\* The loop "skip to its other end" of the reference trace: from the entry
\* at offset first, on to the next node of the path that is in contents.
RECURSIVE SkipChild(_, _, _, _)
SkipChild(index, scheme, contents, first) ==
    LET ref_node_start ==
            first + sequence_size(scheme, index.by_start[first].node_id)
        found == lower_bound(index.by_start, ref_node_start)
    IN IF found.is_end
       THEN [failed |-> TRUE, ref_node_start |-> ref_node_start,
             first |-> first]
       ELSE IF index.by_start[found.first].node_id \in contents
            THEN [failed |-> FALSE, ref_node_start |-> ref_node_start,
                  first |-> found.first]
            ELSE SkipChild(index, scheme, contents, found.first)

\* A faulty test after the child: its end node is always stepped over.
StepsOverChildEnd_Always(snarls, found_visit) ==
    into_which_snarl(snarls, reverse(found_visit)) # nullptr

\* After the child: its end node is stepped over unless it is also the
\* start node of another child snarl.
StepsOverChildEnd(snarls, found_visit) ==
    /\ into_which_snarl(snarls, reverse(found_visit)) # nullptr
    /\ into_which_snarl(snarls, found_visit) = nullptr

AfterChild(index, scheme, snarls, skipped) ==
    IF StepsOverChildEnd(snarls, index.by_start[skipped.first])
    THEN LET ref_node_start ==
                skipped.first
                + sequence_size(scheme, index.by_start[skipped.first].node_id)
             found == lower_bound(index.by_start, ref_node_start)
         IN [failed |-> found.is_end, ref_node_start |-> ref_node_start,
             first |-> found.first]
    ELSE skipped

Fail(t, failure) == [t EXCEPT !.pc = "failed", !.failure = failure]

\* One iteration of the loop tracing the reference path through the site,
\* or the loop's end.
TraceIteration(c, t) ==
    LET found == lower_bound(t.index.by_start, t.ref_node_start)
        found_visit == t.index.by_start[found.first]
        child == into_which_snarl(c.snarls, found_visit)
        managed_site == manage(c.snarls, c.site)
    IN IF t.ref_node_start > t.primary_max THEN [t EXCEPT !.pc = "nodes_left"]
       ELSE IF found.is_end
       THEN Fail(t, "No backbone node found when tracing through site!")
       ELSE IF found.first > t.primary_max THEN [t EXCEPT !.pc = "nodes_left"]
       ELSE IF /\ child # nullptr
               /\ child # managed_site
               /\ into_which_snarl(c.snarls, reverse(found_visit))
                    # managed_site
       THEN LET child_visit ==
                    SnarlVisit(c.snarls[child],
                               found_visit # c.snarls[child].start)
                skipped == SkipChild(t.index, c.scheme, t.contents,
                                     found.first)
                after == AfterChild(t.index, c.scheme, c.snarls, skipped)
            IN IF skipped.failed \/ after.failed
               THEN Fail(t, "assert(found != index.by_start.end())")
               ELSE IF t.index.by_start[after.first].node_id
                            \notin t.contents
               THEN Fail(t, "assert(contents.first.count(here))")
               ELSE [t EXCEPT
                        !.ref_path_for_site = Append(@, child_visit),
                        !.ref_node_start = after.ref_node_start]
       ELSE [t EXCEPT
                !.nodes_left = @ \ {found_visit.node_id},
                !.ref_path_for_site = Append(@, found_visit),
                !.ref_node_start =
                    found.first + sequence_size(c.scheme, found_visit.node_id)]

\* A faulty frontier: the side asked for is ignored and the left one given.
frontier_visit_LeftOnly(visit, left_side) ==
    IF visit.node_id # 0 THEN visit
    ELSE IF visit.backward THEN reverse(visit.snarl.end)
    ELSE visit.snarl.start

\* frontier_visit: the node visit on one end of a visit, even if the visit
\* is of a child snarl.
frontier_visit(visit, left_side) ==
    IF visit.node_id # 0 THEN visit
    ELSE IF visit.backward /\ ~left_side THEN reverse(visit.snarl.start)
    ELSE IF ~visit.backward /\ ~left_side THEN visit.snarl.end
    ELSE IF visit.backward THEN reverse(visit.snarl.end)
    ELSE visit.snarl.start

\* A faulty test: no two visits are found to be to the same child snarl.
SameSnarl_Never(a, b) == a.node_id = 0 /\ b.node_id = 0 /\ a # a

\* extend_into_allele: two visits are to the same child snarl.
SameSnarl(a, b) ==
    /\ a.node_id = 0
    /\ b.node_id = 0
    /\ a.snarl.start = b.snarl.start
    /\ a.snarl.end = b.snarl.end

\* extend_into_allele: the index of the reference visit at which the bubble
\* path starts (past the end if there is none).
RECURSIVE LeftScan(_, _, _)
LeftScan(ref, path, i) ==
    IF i > Len(ref) THEN i
    ELSE IF /\ frontier_visit(ref[i], FALSE) # frontier_visit(path[1], TRUE)
            /\ ~(/\ path[1].node_id = 0
                 /\ frontier_visit(ref[i], FALSE)
                        = frontier_visit(path[1], FALSE))
         THEN LeftScan(ref, path, i + 1)
         ELSE i

\* extend_into_allele: the index of the reference visit at which the bubble
\* path ends, looked for from index j on.
RECURSIVE RightScan(_, _, _)
RightScan(ref, path, j) ==
    IF j > Len(ref) THEN j
    ELSE IF \/ frontier_visit(ref[j], TRUE)
                = frontier_visit(path[Len(path)], FALSE)
            \/ /\ path[Len(path)].node_id = 0
               /\ frontier_visit(ref[j], FALSE)
                    = frontier_visit(path[Len(path)], FALSE)
         THEN j
         ELSE RightScan(ref, path, j + 1)

\* extend_into_allele: the same search started over from the beginning.
RECURSIVE ScanAgain(_, _, _)
ScanAgain(ref, path, j) ==
    IF j > Len(ref) THEN j
    ELSE IF frontier_visit(ref[j], TRUE)
                # frontier_visit(path[Len(path)], FALSE)
         THEN ScanAgain(ref, path, j + 1)
         ELSE j

\* A faulty search: it is not started over.
RightAnchorAt_NoRestart(ref, path, i) == RightScan(ref, path, i)

\* extend_into_allele: the index of the reference visit at which the bubble
\* path ends, looked for from the visit at which it starts and, when the
\* end of the reference path is reached, once more from the beginning (past
\* the end if there is none).
RightAnchorAt(ref, path, i) ==
    IF RightScan(ref, path, i) > Len(ref) THEN ScanAgain(ref, path, 1)
    ELSE RightScan(ref, path, i)

\* extend_into_allele: the bubble path spliced into the reference path, or
\* the failure it ends in.
extend_into_allele(ref, path) ==
    LET i == LeftScan(ref, path, 1)
        before == SubSeq(ref, 1, i - 1)
        enters_child == ref[i].node_id = 0
        bubble_from ==
            IF enters_child
               /\ (path[1].node_id # 0 \/ SameSnarl(path[1], ref[i]))
            THEN 2 ELSE 1
        with_bubble ==
            (IF enters_child THEN Append(before, ref[i]) ELSE before)
            \o SubSeq(path, bubble_from, Len(path))
        scanned == RightScan(ref, path, i)
        j == RightAnchorAt(ref, path, i)
        joined ==
            IF ref[j].node_id = 0
            THEN Append(
                    IF \/ with_bubble[Len(with_bubble)].node_id # 0
                       \/ SameSnarl(ref[j], with_bubble[Len(with_bubble)])
                    THEN SubSeq(with_bubble, 1, Len(with_bubble) - 1)
                    ELSE with_bubble,
                    ref[j])
            ELSE with_bubble
    IN IF i > Len(ref)
       THEN [failed |-> TRUE, restarted |-> FALSE,
             failure |-> "ref_path_for_site read past its end"]
       ELSE IF j > Len(ref)
       THEN [failed |-> TRUE, restarted |-> TRUE,
             failure |-> "Couldn't find in backbone path"]
       ELSE [failed |-> FALSE, restarted |-> scanned > Len(ref),
             extended_path |-> joined \o SubSeq(ref, j + 1, Len(ref))]

\* The bubble paths come in the orientation of the path in use: against the
\* site, the visits are reversed and in reverse order.
Oriented(path, runs_backward) ==
    IF runs_backward
    THEN [i \in 1..Len(path) |-> reverse(path[Len(path) + 1 - i])]
    ELSE path

\* The visits a bubble path can start with when it leaves the reference
\* path after node n, and end with when it joins it at node n: the node, or
\* the child snarl the node is a boundary of.
LeftAnchors(c, n) ==
    {NodeVisit(n, FALSE)}
    \cup {SnarlVisit(c.snarls[p], FALSE) :
            p \in {q \in children_of(c.layout) : c.snarls[q].end.node_id = n}}

RightAnchors(c, n) ==
    {NodeVisit(n, FALSE)}
    \cup {SnarlVisit(c.snarls[p], FALSE) :
            p \in {q \in children_of(c.layout) :
                        c.snarls[q].start.node_id = n}}

\* find_bubble(node, ...): no path, or a path from the reference path
\* through the node's allele and back.
node_bubbles(c, node_id, runs_backward) ==
    {<<>>}
    \cup {Oriented(<<l>>
                    \o [i \in 1..Len(c.allele.via) |->
                            NodeVisit(c.allele.via[i], FALSE)]
                    \o <<r>>, runs_backward) :
            l \in LeftAnchors(c, c.allele.from),
            r \in RightAnchors(c, c.allele.to)}

\* find_bubble(..., edge, ...): no path, or the two ends of the edge.
edge_bubbles(c, edge, runs_backward) ==
    {<<>>}
    \cup {Oriented(<<l, r>>, runs_backward) :
            l \in LeftAnchors(c, edge[1]), r \in RightAnchors(c, edge[2])}

\* find_bubble(..., snarl, ...): no path, or the visit to the child.
child_bubbles(c, child, runs_backward) ==
    {<<>>, Oriented(<<SnarlVisit(c.snarls[child], FALSE)>>, runs_backward)}

\* The edges of shallow_contents: those of the site that are not inside a
\* child.
contents_edges(c, contents) ==
    {e \in c.edges :
        /\ e[1] \in contents
        /\ e[2] \in contents
        /\ ~\E k \in ChildItems(c.layout) :
                e[1] = ItemStart(c.layout, k) /\ e[2] = ItemLast(k)}

\* The seeds of one of the three loops, in the order the loop meets them:
\* the container's, which the model lets be either of two orders.
RECURSIVE Ordered(_, _)
Ordered(ranked, ord) ==
    IF ranked = {} THEN <<>>
    ELSE LET pick == CHOOSE s \in ranked :
                        \A o \in ranked :
                            IF ord = "ascending" THEN s.rank <= o.rank
                            ELSE s.rank >= o.rank
         IN <<pick.seed>> \o Ordered(ranked \ {pick}, ord)

NodesInOrder(nodes, ord) ==
    Ordered({[rank |-> n, seed |-> n] : n \in nodes}, ord)

EdgesInOrder(edges, ord) ==
    Ordered({[rank |-> e[1] * (AltNode(MaxAltNodes) + 1) + e[2], seed |-> e] :
                e \in edges}, ord)

\* A faulty test: the supports are never looked at.
IsUnsupported_Never(c, supports, seed) ==
    has_supports(c.node_supports, c.edge_supports) /\ seed \notin {seed}

\* The test "augmented.has_supports() && total(augmented.get_support(seed))
\* == 0" of the loops over the nodes and over the edges.
IsUnsupported(c, supports, seed) ==
    /\ has_supports(c.node_supports, c.edge_supports)
    /\ total(get_support(supports, seed)) = 0

\* A faulty continuation: an empty path ends the search for alleles.
AfterBubble_EmptyEndsLoops(t, path) ==
    LET extended == extend_into_allele(t.ref_path_for_site, path)
        found == [t EXCEPT !.path = path]
    IN IF path = <<>> THEN [found EXCEPT !.pc = "emit", !.seeds = <<>>]
       ELSE IF extended.failed THEN Fail(found, extended.failure)
       ELSE [found EXCEPT
                !.seeds = Tail(@),
                !.site_traversal_set = @ \cup {extended.extended_path}]

\* The rest of a loop iteration once find_bubble has returned path: nothing
\* for an empty path, else extend_into_allele and the insertion into the
\* set.
AfterBubble(t, path) ==
    LET extended == extend_into_allele(t.ref_path_for_site, path)
        found == [t EXCEPT !.path = path]
    IN IF path = <<>> THEN [found EXCEPT !.seeds = Tail(@)]
       ELSE IF extended.failed THEN Fail(found, extended.failure)
       ELSE [found EXCEPT
                !.seeds = Tail(@),
                !.site_traversal_set = @ \cup {extended.extended_path}]

\* The call of find_bubble for a seed, noted in the searches made.
Searching(t, kind, seed) ==
    [t EXCEPT !.searched = @ \cup {[kind |-> kind, seed |-> seed]}]

\* A faulty conversion: against the path the order is reversed but the
\* visits are left as they are.
emit_traversal_NoFlip(visits, runs_backward) ==
    IF runs_backward
    THEN [i \in 1..Len(visits) |-> visits[Len(visits) - i + 1]]
    ELSE visits

\* emit_traversal: against the path the visits are emitted reversed, in
\* reverse order.
emit_traversal(visits, runs_backward) ==
    IF runs_backward
    THEN [i \in 1..Len(visits) |-> reverse(visits[Len(visits) - i + 1])]
    ELSE visits

\* A faulty test: everything in the set is emitted after the reference path.
IsAlternate_Always(visits, ref_path_for_site) ==
    Len(visits) >= 0 /\ Len(ref_path_for_site) >= 0

\* The test "visits != ref_path_for_site" of the emission loop.
IsAlternate(visits, ref_path_for_site) == visits # ref_path_for_site

\* The elements of site_traversal_set in the order of the set.
RECURSIVE InSetOrder(_)
InSetOrder(set) ==
    IF set = {} THEN <<>>
    ELSE LET first == CHOOSE v \in set : TRUE
         IN <<first>> \o InSetOrder(set \ {first})

NoCall ==
    [finder |-> "none", site |-> SiteSnarl("UNCLASSIFIED"), layout |-> <<>>,
     in_chain |-> FALSE, path_backward |-> FALSE, scheme |-> "unit",
     has_primary |-> FALSE, allele |-> NoAllele, snarls |-> <<>>,
     edges |-> {}, node_supports |-> <<>>, edge_supports |-> <<>>]

IdleTraversal ==
    [pc |-> "idle", failure |-> "", performed |-> <<>>, index |-> NoIndex,
     contents |-> {}, nodes_left |-> {}, site_start |-> 0, site_end |-> 0,
     primary_max |-> 0, ref_node_start |-> 0, ref_path_for_site |-> <<>>,
     ord |-> "ascending", seeds |-> <<>>, searched |-> {}, path |-> <<>>,
     site_traversal_set |-> {}, unique_traversals |-> <<>>]

MakeCall(finder, type, layout, in_chain, backward, scheme, has_primary, allele) ==
    [finder |-> finder, site |-> SiteSnarl(type), layout |-> layout,
     in_chain |-> in_chain, path_backward |-> backward,
     scheme |-> scheme, has_primary |-> has_primary, allele |-> allele,
     snarls |-> ManagedSnarls(layout, in_chain, type),
     edges |-> GraphEdges(layout, in_chain, allele),
     node_supports |-> <<>>, edge_supports |-> <<>>]

\* The nodes of the child snarl item k stands for.
ChildNodes(layout, k) ==
    {ItemStart(layout, k), ItemLast(k)}
    \cup (IF IsLong(layout[k]) THEN {ItemInterior(k)} ELSE {})

\* What the reads may leave without support: nothing, a node off the path,
\* an edge, or a child snarl with all its nodes.
Unsupported(layout, allele) ==
    {[nodes |-> {}, edges |-> {}]}
    \cup {[nodes |-> {n}, edges |-> {}] : n \in SeqRange(allele.via)}
    \cup {[nodes |-> {}, edges |-> {e}] :
            e \in GraphEdges(layout, FALSE, allele)}
    \cup {[nodes |-> ChildNodes(layout, k), edges |-> {}] :
            k \in ChildItems(layout)}

\* The call on a graph augmented with supports: one read on everything but
\* the unsupported.
WithSupports(c, unsupported) ==
    [c EXCEPT
        !.node_supports =
            [n \in (SeqRange(SitePath(c.layout)) \cup SeqRange(c.allele.via))
                    \ unsupported.nodes |-> make_support(1, 0, 0)],
        !.edge_supports =
            [e \in c.edges \ unsupported.edges |-> make_support(0, 1, 0)]]

\* An allele leaves the path at a node that is not the start of a child and
\* joins it at a node that is not the end of a child, and is not an edge of
\* the path.
AlleleFits(layout, allele) ==
    /\ \A k \in ChildItems(layout) :
          allele.from # ItemStart(layout, k) /\ allele.to # ItemLast(k)
    /\ PathEdges(<<allele.from>> \o allele.via \o <<allele.to>>)
            \cap PathEdges(SitePath(layout)) = {}

TraversalInit ==
    /\ \E finder \in {"representative", "trivial"} :
       \E type \in {"ULTRABUBBLE", "UNARY", "UNCLASSIFIED"} :
       \E layout \in Layouts :
       \E in_chain \in BOOLEAN :
       \E path_backward \in BOOLEAN :
       \E scheme \in LengthSchemes :
       \E has_primary \in BOOLEAN :
       \E allele \in {NoAllele} \cup Alleles(layout) :
          /\ allele # NoAllele =>
                /\ AlleleFits(layout, allele)
                /\ has_primary /\ ~in_chain /\ scheme = "unit"
          /\ type # "ULTRABUBBLE" =>
                /\ layout = <<>> /\ allele = NoAllele
                /\ ~path_backward /\ scheme = "unit"
          /\ finder = "trivial" =>
                /\ ~has_primary /\ ~path_backward /\ scheme = "unit"
          /\ call = MakeCall(finder, type, layout, in_chain, path_backward,
                             scheme, has_primary, allele)
    /\ trav = IdleTraversal

\* A finder called on an ULTRABUBBLE of a graph augmented with supports: the
\* primary path runs through the site, which holds one item fewer than a
\* site may.
SupportedInit ==
    /\ \E finder \in {"representative", "trivial"} :
       \E layout \in {l \in Layouts : Len(l) < MaxItems} :
       \E allele \in {NoAllele} \cup Alleles(layout) :
       \E unsupported \in Unsupported(layout, allele) :
          /\ allele # NoAllele => AlleleFits(layout, allele)
          /\ finder = "trivial" =>
                unsupported = [nodes |-> {}, edges |-> {}]
          /\ call = WithSupports(
                        MakeCall(finder, "ULTRABUBBLE", layout, FALSE, FALSE,
                                 "unit", finder = "representative", allele),
                        unsupported)
    /\ trav = IdleTraversal

\* RepresentativeTraversalFinder::find_traversals up to the reference trace:
\* the precondition, the index to use, the contents and the coordinates of
\* the site.
RepresentativeFindTraversals ==
    /\ trav.pc = "idle"
    /\ call.finder = "representative"
    /\ \E ord \in Orders :
          LET primary ==
                PathIndex(PrimaryPath(call.layout, call.in_chain,
                                      call.path_backward), call.scheme)
              on_primary ==
                /\ call.has_primary
                /\ call.site.start.node_id \in DOMAIN primary.by_id
                /\ call.site.end.node_id \in DOMAIN primary.by_id
              traversals == TrivialTraversals(call.edges, call.site, ord)
              index == IF on_primary THEN primary
                       ELSE PathIndex(traversals[1], call.scheme)
              contents == shallow_contents(call.layout, call.allele)
              site_start == index.by_id[call.site.start.node_id].first
              site_end == index.by_id[call.site.end.node_id].first
              primary_min == IF site_start < site_end THEN site_start
                             ELSE site_end
              primary_max == IF site_start < site_end THEN site_end
                             ELSE site_start
          IN trav' =
                IF ~IsTraversable(call.site)
                THEN Fail(trav, "assert(site.type() == ULTRABUBBLE)")
                ELSE IF ~on_primary /\ traversals = <<>>
                THEN Fail([trav EXCEPT !.performed =
                                <<"manage", "get_index", "find_backbone">>],
                          "assert(!traversals.empty())")
                ELSE [trav EXCEPT
                        !.pc = "trace",
                        !.performed =
                            <<"manage", "get_index">>
                            \o (IF on_primary THEN <<>>
                                ELSE <<"find_backbone">>)
                            \o <<"shallow_contents", "by_id">>,
                        !.index = index,
                        !.contents = contents,
                        !.nodes_left = contents,
                        !.site_start = site_start,
                        !.site_end = site_end,
                        !.primary_max = primary_max,
                        !.ref_node_start = primary_min,
                        !.ord = ord]
    /\ UNCHANGED <<call, outside_traversal>>

\* One iteration of the loop tracing the reference path.
TraceReferencePath ==
    /\ trav.pc = "trace"
    /\ trav' = TraceIteration(call, trav)
    /\ UNCHANGED <<call, outside_traversal>>

\* The loop over nodes_left: none of the nodes not traced is on the path.
CheckNodesLeft ==
    /\ trav.pc = "nodes_left"
    /\ trav' =
        IF \E n \in trav.nodes_left :
                /\ into_which_snarl_at(call.snarls, n, TRUE) = nullptr
                /\ into_which_snarl_at(call.snarls, n, FALSE) = nullptr
                /\ n \in DOMAIN trav.index.by_id
        THEN Fail(trav, "Extra ref node found")
        ELSE [trav EXCEPT
                !.pc = "nodes",
                !.seeds = NodesInOrder(trav.contents, trav.ord)]
    /\ UNCHANGED <<call, outside_traversal>>

\* One iteration of the loop over the nodes of the site, or the loop's end:
\* a bubble for a node that is not a child boundary and not on the path.
ExploreNode ==
    /\ trav.pc = "nodes"
    /\ IF trav.seeds = <<>>
       THEN trav' = [trav EXCEPT
                        !.pc = "edges",
                        !.seeds = EdgesInOrder(
                                    contents_edges(call, trav.contents),
                                    trav.ord)]
       ELSE IF \/ into_which_snarl_at(call.snarls, Head(trav.seeds), TRUE)
                    # nullptr
               \/ into_which_snarl_at(call.snarls, Head(trav.seeds), FALSE)
                    # nullptr
               \/ IsUnsupported(call, call.node_supports, Head(trav.seeds))
               \/ Head(trav.seeds) \in DOMAIN trav.index.by_id
       THEN trav' = [trav EXCEPT !.seeds = Tail(@)]
       ELSE \E path \in node_bubbles(call, Head(trav.seeds),
                                     trav.site_start > trav.site_end) :
               trav' = AfterBubble(Searching(trav, "node", <<Head(trav.seeds)>>),
                                   path)
    /\ UNCHANGED <<call, outside_traversal>>

\* One iteration of the loop over the edges of the site, or the loop's end:
\* a bubble for an edge with both ends on the path.
ExploreEdge ==
    /\ trav.pc = "edges"
    /\ IF trav.seeds = <<>>
       THEN trav' = [trav EXCEPT
                        !.pc = "children",
                        !.seeds = NodesInOrder(children_of(call.layout),
                                               trav.ord)]
       ELSE IF \/ IsUnsupported(call, call.edge_supports, Head(trav.seeds))
               \/ Head(trav.seeds)[1] \notin DOMAIN trav.index.by_id
               \/ Head(trav.seeds)[2] \notin DOMAIN trav.index.by_id
       THEN trav' = [trav EXCEPT !.seeds = Tail(@)]
       ELSE \E path \in edge_bubbles(call, Head(trav.seeds),
                                     trav.site_start > trav.site_end) :
               trav' = AfterBubble(Searching(trav, "edge", Head(trav.seeds)),
                                   path)
    /\ UNCHANGED <<call, outside_traversal>>

\* One iteration of the loop over the children of the site, or the loop's
\* end: a bubble for the child.
ExploreChild ==
    /\ trav.pc = "children"
    /\ IF trav.seeds = <<>>
       THEN trav' = [trav EXCEPT !.pc = "emit"]
       ELSE \E path \in child_bubbles(call, Head(trav.seeds),
                                      trav.site_start > trav.site_end) :
               trav' = AfterBubble(Searching(trav, "child", <<Head(trav.seeds)>>),
                                   path)
    /\ UNCHANGED <<call, outside_traversal>>

\* The conversion to SnarlTraversals: the reference path first, then
\* everything of the set that passes the test.
EmitTraversals ==
    /\ trav.pc = "emit"
    /\ LET backward == trav.site_start > trav.site_end
           others == InSetOrder({v \in trav.site_traversal_set :
                                    IsAlternate(v, trav.ref_path_for_site)})
       IN trav' = [trav EXCEPT
                    !.pc = "returned",
                    !.performed = Append(@, "emit_traversal"),
                    !.unique_traversals =
                        <<emit_traversal(trav.ref_path_for_site, backward)>>
                        \o [i \in 1..Len(others) |->
                                emit_traversal(others[i], backward)]]
    /\ UNCHANGED <<call, outside_traversal>>

\* TrivialTraversalFinder::find_traversals.
TrivialFindTraversals ==
    /\ trav.pc = "idle"
    /\ call.finder = "trivial"
    /\ \E ord \in Orders :
          trav' =
            IF ~IsTraversable(call.site)
            THEN Fail(trav, "assert(site.type() == ULTRABUBBLE)")
            ELSE [trav EXCEPT
                    !.pc = "returned",
                    !.performed = <<"nodes_next">>,
                    !.unique_traversals =
                        TrivialTraversals(call.edges, call.site, ord)]
    /\ UNCHANGED <<call, outside_traversal>>

TraversalNext ==
    \/ RepresentativeFindTraversals
    \/ TraceReferencePath
    \/ CheckNodesLeft
    \/ ExploreNode
    \/ ExploreEdge
    \/ ExploreChild
    \/ EmitTraversals
    \/ TrivialFindTraversals

(***************************************************************************)
(* find_bubble.  A call hands it a seed in a site: the backbone runs from  *)
(* the site's start over two nodes to its end, two nodes and one child     *)
(* snarl lie off it, and a few edges join them to each other and to the    *)
(* backbone.                                                               *)
(***************************************************************************)
\* The most edges off the backbone in a site.
MaxOffEdges == 4

\* The largest max_depth, max_width and max_bubble_paths of a finder.
MaxDepth == 3
MaxWidth == 3
MaxBubblePaths == 2

\* The most reads on a strand.
MaxSupport == 1

\* NodeSide(node, is_end).
NodeSide(node, is_end) == [node |-> node, is_end |-> is_end]

\* to_left_side(Visit): the side by which the visit is entered.
to_left_side(visit) ==
    IF visit.node_id # 0 THEN NodeSide(visit.node_id, visit.backward)
    ELSE IF visit.backward
         THEN NodeSide(visit.snarl.end.node_id, ~visit.snarl.end.backward)
         ELSE NodeSide(visit.snarl.start.node_id, visit.snarl.start.backward)

\* to_right_side(Visit): the side by which the visit is left.
to_right_side(visit) ==
    IF visit.node_id # 0 THEN NodeSide(visit.node_id, ~visit.backward)
    ELSE IF visit.backward
         THEN NodeSide(visit.snarl.start.node_id, visit.snarl.start.backward)
         ELSE NodeSide(visit.snarl.end.node_id, ~visit.snarl.end.backward)

\* The Edge from the right side of one node visit to the left side of
\* another.
make_edge(from_visit, onto_visit) ==
    [from |-> from_visit.node_id, from_start |-> from_visit.backward,
     to |-> onto_visit.node_id, to_end |-> onto_visit.backward]

\* The null Edge*.
NoEdge == [from |-> 0, from_start |-> FALSE, to |-> 0, to_end |-> FALSE]

\* The two sides an Edge joins.
EdgeSides(edge) ==
    {NodeSide(edge.from, ~edge.from_start), NodeSide(edge.to, edge.to_end)}

\* VG::get_edge(NodeSide, NodeSide).
get_edge(edges, side1, side2) ==
    IF \E e \in edges : EdgeSides(e) = {side1, side2}
    THEN CHOOSE e \in edges : EdgeSides(e) = {side1, side2}
    ELSE NoEdge

\* VG::sides_of: the sides attached to a side, in the order of the set.
sides_of(edges, side) ==
    LET attached == {s \in UNION {EdgeSides(e) : e \in edges} :
                        \E e \in edges : EdgeSides(e) = {side, s}}
    IN Ordered({[rank |-> 2 * s.node + (IF s.is_end THEN 1 ELSE 0),
                 seed |-> s] : s \in attached}, "ascending")

\* The nodes of the site: on the backbone, the boundaries of the child
\* snarl, and the other nodes off the backbone.
BubbleNodes ==
    [start |-> 1, middle |-> 2, beyond |-> 3, end |-> 4, child_start |-> 5,
     child_end |-> 6, first_off |-> 7, second_off |-> 8]

Forward(node_id) == NodeVisit(node_id, FALSE)

BubbleSite ==
    [start |-> Forward(BubbleNodes.start), end |-> Forward(BubbleNodes.end),
     type |-> "ULTRABUBBLE"]

BubbleChild ==
    [start |-> Forward(BubbleNodes.child_start),
     end |-> Forward(BubbleNodes.child_end), type |-> "ULTRABUBBLE"]

\* The edges of the backbone, and the edges a site can have off it: to the
\* first node off the backbone and from it, back or on; between it and the
\* second; into the end of the site's end node (a fold back); through the
\* child; and from the start of the site straight to its end.
BackboneEdges ==
    {make_edge(Forward(BubbleNodes.start), Forward(BubbleNodes.middle)),
     make_edge(Forward(BubbleNodes.middle), Forward(BubbleNodes.beyond)),
     make_edge(Forward(BubbleNodes.beyond), Forward(BubbleNodes.end))}

OffEdges ==
    LET n == BubbleNodes
    IN {make_edge(Forward(n.start), Forward(n.first_off)),
        make_edge(Forward(n.first_off), Forward(n.end)),
        make_edge(Forward(n.first_off), Forward(n.middle)),
        make_edge(Forward(n.beyond), Forward(n.first_off)),
        make_edge(Forward(n.first_off), Forward(n.second_off)),
        make_edge(Forward(n.second_off), Forward(n.first_off)),
        make_edge(Forward(n.start), Forward(n.second_off)),
        make_edge(Forward(n.second_off), Forward(n.end)),
        make_edge(Forward(n.first_off), NodeVisit(n.end, TRUE)),
        make_edge(Forward(n.start), Forward(n.child_start)),
        make_edge(Forward(n.child_end), Forward(n.first_off)),
        make_edge(Forward(n.start), Forward(n.end))}

EdgeNodes(edges) == {e.from : e \in edges} \cup {e.to : e \in edges}

\* The backbone through the site, along it or against it.
Backbone(path_backward) ==
    LET nodes == <<BubbleNodes.start, BubbleNodes.middle, BubbleNodes.beyond,
                   BubbleNodes.end>>
    IN IF path_backward
       THEN [i \in 1..Len(nodes) |-> NodeVisit(Reversed(nodes)[i], TRUE)]
       ELSE [i \in 1..Len(nodes) |-> NodeVisit(nodes[i], FALSE)]

\* Seeds find_traversals calls find_bubble with: a node that is neither on
\* the backbone nor a boundary of a child, an edge with both ends on the
\* backbone, a child.
NodeSeed(node_id) ==
    [kind |-> "node", node |-> node_id, edge |-> NoEdge, snarl |-> nullptr]
EdgeSeed(edge) ==
    [kind |-> "edge", node |-> 0, edge |-> edge, snarl |-> nullptr]
SnarlSeed(child) ==
    [kind |-> "child", node |-> 0, edge |-> NoEdge, snarl |-> child]
ChildSeed == SnarlSeed(2)

HasChild(edges) ==
    EdgeNodes(edges) \cap {BubbleNodes.child_start, BubbleNodes.child_end} # {}

Seeds(chosen) ==
    {NodeSeed(n) : n \in EdgeNodes(chosen) \cap {BubbleNodes.first_off}}
    \cup {EdgeSeed(e) : e \in {x \in chosen :
            {x.from, x.to} \subseteq
                {BubbleNodes.start, BubbleNodes.middle, BubbleNodes.beyond,
                 BubbleNodes.end}}}
    \cup (IF HasChild(chosen) THEN {ChildSeed} ELSE {})
    \cup (IF chosen = {} THEN {EdgeSeed(e) : e \in BackboneEdges} ELSE {})

\* The supports of a graph: none at all, or MaxSupport reads on each strand
\* of every node and edge but for one node or edge with less, or but for
\* the two nodes off the backbone with reads on one strand each.
FullSupport == make_support(MaxSupport, MaxSupport, 0)

LowSupports == {NoSupport, make_support(MaxSupport, 0, 0)}

SupportsOf(edges) ==
    LET nodes == EdgeNodes(edges)
        full == [node_supports |-> [n \in nodes |-> FullSupport],
                 edge_supports |-> [e \in edges |-> FullSupport]]
        off == {BubbleNodes.first_off, BubbleNodes.second_off}
    IN {full}
       \cup {[full EXCEPT !.node_supports[n] = low] :
                n \in nodes \ {BubbleNodes.middle, BubbleNodes.beyond},
                low \in LowSupports}
       \cup {[full EXCEPT !.edge_supports[e] = low] :
                e \in edges \ BackboneEdges, low \in LowSupports}
       \cup (IF off \subseteq nodes
             THEN {[full EXCEPT
                        !.node_supports[BubbleNodes.first_off] =
                            make_support(MaxSupport, 0, 0),
                        !.node_supports[BubbleNodes.second_off] =
                            make_support(0, MaxSupport, 0)]}
             ELSE {})

\* The limits of a finder and the supports of its graph: the greatest
\* depth, width and number of paths on a graph without supports; or one of
\* the three lowered, or the backbone against the site, or supports.
Limits(max_depth, max_width, max_bubble_paths, path_backward, supports) ==
    [max_depth |-> max_depth, max_width |-> max_width,
     max_bubble_paths |-> max_bubble_paths, path_backward |-> path_backward,
     node_supports |-> supports.node_supports,
     edge_supports |-> supports.edge_supports]

Unsupplied == [node_supports |-> <<>>, edge_supports |-> <<>>]

Profiles(edges) ==
    {Limits(d, MaxWidth, MaxBubblePaths, FALSE, Unsupplied) :
        d \in 0..MaxDepth}
    \cup {Limits(MaxDepth, w, MaxBubblePaths, FALSE, Unsupplied) :
            w \in 0..MaxWidth}
    \cup {Limits(MaxDepth, MaxWidth, b, FALSE, Unsupplied) :
            b \in 0..MaxBubblePaths}
    \cup {Limits(MaxDepth, MaxWidth, MaxBubblePaths, TRUE, Unsupplied)}
    \cup {Limits(MaxDepth, MaxWidth, MaxBubblePaths, FALSE, s) :
            s \in SupportsOf(edges)}

NoBubbleCall ==
    [seed |-> ChildSeed, edges |-> {}, snarls |-> <<>>, in_snarl |-> nullptr,
     index |-> NoIndex, node_supports |-> <<>>, edge_supports |-> <<>>,
     max_depth |-> 0, max_width |-> 0, max_bubble_paths |-> 0]

\* bfs_left: the search as it starts from a visit.
StartBfs(visit, stopIfVisited) ==
    [toExtend |-> <<<<visit>>>>, toReturn |-> {}, alreadyQueued |-> {visit},
     stillToExtend |-> 1, stopIfVisited |-> stopIfVisited,
     unhandled |-> FALSE]

NoBfs ==
    [toExtend |-> <<>>, toReturn |-> {}, alreadyQueued |-> {},
     stillToExtend |-> 0, stopIfVisited |-> FALSE, unhandled |-> FALSE]

NoBubblePath == [first |-> NoSupport, second |-> <<>>]

IdleBubble ==
    [pc |-> "idle", left_visit |-> NullVisit, right_visit |-> NullVisit,
     bfs |-> NoBfs, leftPaths |-> <<>>, rightPaths |-> <<>>,
     left |-> 0, right |-> 0, bestBubblePath |-> NoBubblePath,
     bubbleCount |-> 0, evaluated |-> <<>>]

\* SnarlManager::visits_right: the visits that can follow a visit, a child
\* snarl standing for the node by which it is entered.
visits_right(c, visit) ==
    LET right_side == to_right_side(visit)
        next_child ==
            into_which_snarl_at(c.snarls, right_side.node, ~right_side.is_end)
        attached == sides_of(c.edges, right_side)
        entered(side) ==
            into_which_snarl_at(c.snarls, side.node, side.is_end)
        next_visit(side) ==
            IF /\ entered(side) # nullptr
               /\ entered(side) # c.in_snarl
               /\ into_which_snarl_at(c.snarls, side.node, ~side.is_end)
                    # c.in_snarl
            THEN SnarlVisit(c.snarls[entered(side)],
                            side.node # c.snarls[entered(side)].start.node_id)
            ELSE NodeVisit(side.node, side.is_end)
    IN IF /\ visit.node_id = 0
          /\ next_child # nullptr
          /\ next_child # c.in_snarl
          /\ into_which_snarl_at(c.snarls, right_side.node, right_side.is_end)
                # c.in_snarl
       THEN <<SnarlVisit(c.snarls[next_child],
                         right_side.node
                            # c.snarls[next_child].start.node_id)>>
       ELSE [i \in 1..Len(attached) |-> next_visit(attached[i])]

\* SnarlManager::visits_left: the visits that can come before a visit.
visits_left(c, visit) ==
    LET after == visits_right(c, reverse(visit))
    IN [i \in 1..Len(after) |-> reverse(after[i])]

\* bp_length: the bases of the nodes on a path.
RECURSIVE bp_length(_)
bp_length(path) ==
    IF path = <<>> THEN 0
    ELSE (IF Head(path).node_id # 0
          THEN sequence_size("unit", Head(path).node_id) ELSE 0)
         + bp_length(Tail(path))

\* bfs_left: the front of the path is on the reference path; a node, or a
\* child snarl by the end on its left.
ReachedBackbone(index, front) ==
    \/ front.node_id # 0 /\ front.node_id \in DOMAIN index.by_id
    \/ /\ front.node_id = 0
       /\ ~front.backward
       /\ front.snarl.start.node_id \in DOMAIN index.by_id
    \/ /\ front.node_id = 0
       /\ front.backward
       /\ front.snarl.end.node_id \in DOMAIN index.by_id

\* A faulty test: paths of one visit more are extended still.
WithinDepth_OneMore(path, max_depth) == Len(path) <= max_depth + 1

\* bfs_left: the test "path.size() <= max_depth".
WithinDepth(path, max_depth) == Len(path) <= max_depth

\* A faulty test: the queue takes one path more.
QueueIsFull_OneMore(stillToExtend, max_width) == stillToExtend > max_width

\* bfs_left: the test "stillToExtend >= max_width".
QueueIsFull(stillToExtend, max_width) == stillToExtend >= max_width

\* A faulty test: the support of the edge to a node is not looked at.
LacksSupport_NodeOnly(c, prevVisit, front) ==
    /\ has_supports(c.node_supports, c.edge_supports)
    /\ total(get_support(c.node_supports, to_left_side(prevVisit).node)) = 0

\* bfs_left: the extension is rejected for its support.  A node, when the
\* node or the edge from it has none; a child snarl, when the node by which
\* the path would leave it on the left has none.
LacksSupport(c, prevVisit, front) ==
    /\ has_supports(c.node_supports, c.edge_supports)
    /\ IF prevVisit.node_id # 0
       THEN \/ total(get_support(c.node_supports, prevVisit.node_id)) = 0
            \/ total(get_support(c.edge_supports,
                                 get_edge(c.edges, to_right_side(prevVisit),
                                          to_left_side(front)))) = 0
       ELSE total(get_support(c.node_supports,
                              to_left_side(prevVisit).node)) = 0

\* bfs_left: the loop over prevVisits.
RECURSIVE queue_extensions(_, _, _, _)
queue_extensions(c, path, prevVisits, bfs) ==
    IF prevVisits = <<>> THEN bfs
    ELSE IF \/ LacksSupport(c, Head(prevVisits), path[1])
            \/ bfs.stopIfVisited /\ Head(prevVisits) \in bfs.alreadyQueued
            \/ QueueIsFull(bfs.stillToExtend, c.max_width)
         THEN queue_extensions(c, path, Tail(prevVisits), bfs)
         ELSE queue_extensions(c, path, Tail(prevVisits),
                [bfs EXCEPT
                    !.toExtend = Append(@, <<Head(prevVisits)>> \o path),
                    !.stillToExtend = @ + 1,
                    !.alreadyQueued = @ \cup {Head(prevVisits)}])

\* A faulty loop: the two tests of the length leave out the path of just
\* max_depth visits.
bfs_left_iteration_Gap(c, bfs) ==
    LET path == Head(bfs.toExtend)
        dequeued == [bfs EXCEPT !.toExtend = Tail(@),
                                !.stillToExtend = @ - 1]
    IN IF ReachedBackbone(c.index, path[1])
       THEN [dequeued EXCEPT
                !.toReturn = @ \cup {<<bp_length(path), path>>}]
       ELSE IF Len(path) < c.max_depth
       THEN queue_extensions(c, path, visits_left(c, path[1]), dequeued)
       ELSE IF Len(path) > c.max_depth THEN dequeued
       ELSE [dequeued EXCEPT !.unhandled = TRUE]

\* bfs_left: one iteration of the loop over toExtend.  A path that is not
\* on the reference path and is not extended is dropped when it has
\* max_depth visits or more; the last branch is for any other path.
bfs_left_iteration(c, bfs) ==
    LET path == Head(bfs.toExtend)
        dequeued == [bfs EXCEPT !.toExtend = Tail(@),
                                !.stillToExtend = @ - 1]
    IN IF ReachedBackbone(c.index, path[1])
       THEN [dequeued EXCEPT
                !.toReturn = @ \cup {<<bp_length(path), path>>}]
       ELSE IF WithinDepth(path, c.max_depth)
       THEN queue_extensions(c, path, visits_left(c, path[1]), dequeued)
       ELSE IF Len(path) >= c.max_depth THEN dequeued
       ELSE [dequeued EXCEPT !.unhandled = TRUE]

\* The order of Visits, and of paths with their lengths in a set.
VisitRank(visit) ==
    IF visit.node_id # 0
    THEN 2 * visit.node_id + (IF visit.backward THEN 1 ELSE 0)
    ELSE IF visit.backward THEN 1 ELSE 0

RECURSIVE PathBefore(_, _)
PathBefore(p, q) ==
    IF q = <<>> THEN FALSE
    ELSE IF p = <<>> THEN TRUE
    ELSE IF VisitRank(Head(p)) # VisitRank(Head(q))
         THEN VisitRank(Head(p)) < VisitRank(Head(q))
         ELSE PathBefore(Tail(p), Tail(q))

RECURSIVE PathsInSetOrder(_)
PathsInSetOrder(paths) ==
    IF paths = {} THEN <<>>
    ELSE LET first == CHOOSE p \in paths :
                        \A q \in paths \ {p} :
                            \/ p[1] < q[1]
                            \/ p[1] = q[1] /\ PathBefore(p[2], q[2])
         IN <<first[2]>> \o PathsInSetOrder(paths \ {first})

\* A faulty conversion: the paths are run the other way with the visits
\* left as they are.
bfs_right_paths_NoFlip(toConvert) ==
    {<<p[1], [i \in 1..Len(p[2]) |-> p[2][Len(p[2]) + 1 - i]]>> :
        p \in toConvert}

\* bfs_right: every path of bfs_left from the reversed visit, run the other
\* way with every visit reversed.
bfs_right_paths(toConvert) ==
    {<<p[1], [i \in 1..Len(p[2]) |-> reverse(p[2][Len(p[2]) + 1 - i])]>> :
        p \in toConvert}

\* support_min: the lesser forward, reverse and quality; left and right are
\* not set and keep the zero of a new Support.
support_min(a, b) ==
    [forward |-> IF a.forward < b.forward THEN a.forward ELSE b.forward,
     reverse |-> IF a.reverse < b.reverse THEN a.reverse ELSE b.reverse,
     left |-> 0, right |-> 0,
     quality |-> IF a.quality < b.quality THEN a.quality ELSE b.quality]

\* min_support_in_path: the loop over each visit and its next visit.
RECURSIVE min_support_loop(_, _, _, _)
min_support_loop(c, path, supportFound, minSupport) ==
    IF Len(path) < 2 THEN minSupport
    ELSE LET next == path[2]
             nextSupport == get_support(c.node_supports, next.node_id)
             with_node ==
                IF next.node_id = 0 THEN minSupport
                ELSE IF supportFound THEN support_min(minSupport, nextSupport)
                ELSE nextSupport
             found == supportFound \/ next.node_id # 0
             edge == get_edge(c.edges, to_right_side(path[1]),
                              to_left_side(next))
             edgeSupport == get_support(c.edge_supports, edge)
             with_edge ==
                IF edge = NoEdge THEN with_node
                ELSE IF found THEN support_min(with_node, edgeSupport)
                ELSE edgeSupport
         IN min_support_loop(c, Tail(path), found \/ edge # NoEdge, with_edge)

min_support_in_path(c, path) ==
    IF path = <<>> THEN NoSupport
    ELSE IF path[1].node_id # 0
         THEN min_support_loop(c, path, TRUE,
                               get_support(c.node_supports, path[1].node_id))
         ELSE min_support_loop(c, path, FALSE, NoSupport)

\* A faulty test: the two ends may be on the backbone in any orientation.
Consistent_AnyOrientation(leftRelative, rightRelative, leftPos, rightPos) ==
    \/ ~leftRelative /\ leftPos < rightPos
    \/ leftRelative /\ leftPos > rightPos

\* find_bubble: both ends are on the backbone in the same relative
\* orientation, the left before the right along it.
Consistent(leftRelative, rightRelative, leftPos, rightPos) ==
    /\ leftRelative = rightRelative
    /\ \/ ~leftRelative /\ leftPos < rightPos
       \/ leftRelative /\ leftPos > rightPos

\* find_bubble: a visit added from the right path is to a node or to a child
\* snarl of the left path.
Overlaps(leftPath, added) ==
    \E i \in 1..Len(added) : \E j \in 1..Len(leftPath) :
        IF added[i].node_id # 0
        THEN leftPath[j].node_id = added[i].node_id
        ELSE leftPath[j].node_id = 0 /\ leftPath[j].snarl = added[i].snarl

\* A faulty test: a path as good as the best replaces it.
IsBetter_OrEqual(minFullSupport, bestBubblePath) ==
    total(minFullSupport) >= total(bestBubblePath.first)

\* find_bubble: the path has more support than the best so far, or as much
\* when there is none so far.
IsBetter(minFullSupport, bestBubblePath) ==
    \/ total(minFullSupport) > total(bestBubblePath.first)
    \/ /\ total(minFullSupport) = total(bestBubblePath.first)
       /\ bestBubblePath.second = <<>>

\* A faulty test: one combination more is looked at.
EnoughBubbles_OneMore(bubbleCount, max_bubble_paths) ==
    bubbleCount > max_bubble_paths

\* find_bubble: the test "++bubbleCount >= max_bubble_paths".
EnoughBubbles(bubbleCount, max_bubble_paths) ==
    bubbleCount >= max_bubble_paths

\* find_bubble: the visit an edge seed gives on its right, the child snarl
\* read into there if there is one.
right_of_edge(c, right_visit) ==
    LET right_child == into_which_snarl(c.snarls, right_visit)
        right_child_visit == SnarlVisit(c.snarls[right_child], FALSE)
    IN IF /\ right_child # nullptr
          /\ right_child # c.in_snarl
          /\ into_which_snarl(c.snarls, reverse(right_visit)) # c.in_snarl
       THEN IF to_left_side(right_visit) # to_left_side(right_child_visit)
            THEN reverse(right_child_visit)
            ELSE right_child_visit
       ELSE right_visit

\* find_bubble: the visit an edge seed gives on its left.
left_of_edge(c, left_visit) ==
    LET left_child == into_which_snarl(c.snarls, left_visit)
        left_child_visit == SnarlVisit(c.snarls[left_child], FALSE)
    IN IF /\ left_child # nullptr
          /\ left_child # c.in_snarl
          /\ into_which_snarl(c.snarls, reverse(left_visit)) # c.in_snarl
       THEN IF to_right_side(left_visit) # to_right_side(left_child_visit)
            THEN reverse(left_child_visit)
            ELSE left_child_visit
       ELSE left_visit

\* find_bubble: what one pass of the inner loop of testCombinations makes of
\* a left path and a right path.
test_combination(c, b, leftPath, rightPath) ==
    LET leftSide == to_left_side(leftPath[1])
        leftRefPos == c.index.by_id[leftSide.node]
        leftRelativeOrientation == leftSide.is_end # leftRefPos.second
        minLeftSupport == min_support_in_path(c, leftPath)
        rightSide == to_right_side(rightPath[Len(rightPath)])
        rightRefPos == c.index.by_id[rightSide.node]
        rightRelativeOrientation == (~rightSide.is_end) # rightRefPos.second
        minRightSupport == min_support_in_path(c, rightPath)
        minFullSupport == support_min(minLeftSupport, minRightSupport)
        added == IF c.seed.kind = "edge" THEN rightPath ELSE Tail(rightPath)
        fullPath == IF leftRelativeOrientation
                    THEN Oriented(leftPath \o added, TRUE)
                    ELSE leftPath \o added
    IN IF ~Consistent(leftRelativeOrientation, rightRelativeOrientation,
                      leftRefPos.first, rightRefPos.first)
       THEN b
       ELSE IF Overlaps(leftPath, added) THEN b
       ELSE [b EXCEPT
                !.bestBubblePath =
                    IF IsBetter(minFullSupport, @)
                    THEN [first |-> minFullSupport, second |-> fullPath]
                    ELSE @,
                !.bubbleCount = @ + 1,
                !.evaluated = Append(@, [left |-> leftPath, right |-> rightPath,
                                          path |-> fullPath]),
                !.pc = IF EnoughBubbles(b.bubbleCount + 1, c.max_bubble_paths)
                       THEN "returned" ELSE @]

BubbleInit ==
    /\ \E chosen \in {s \in SUBSET OffEdges : Cardinality(s) <= MaxOffEdges} :
       \E seed \in Seeds(chosen) :
       \E limits \in Profiles(BackboneEdges \cup chosen) :
          bubble_call =
            [seed |-> seed,
             edges |-> BackboneEdges \cup chosen,
             snarls |-> <<BubbleSite>>
                        \o (IF HasChild(chosen) THEN <<BubbleChild>>
                            ELSE <<>>),
             in_snarl |-> 1,
             index |-> PathIndex(Backbone(limits.path_backward), "unit"),
             node_supports |-> limits.node_supports,
             edge_supports |-> limits.edge_supports,
             max_depth |-> limits.max_depth,
             max_width |-> limits.max_width,
             max_bubble_paths |-> limits.max_bubble_paths]
    /\ bubble = IdleBubble

\* find_bubble is called: the visits to search from, and bfs_left starts.
FindBubble ==
    /\ bubble.pc = "idle"
    /\ bubble_call # NoBubbleCall
    /\ LET c == bubble_call
           edge == c.seed.edge
           left_visit ==
                IF c.seed.kind = "edge"
                THEN left_of_edge(c, NodeVisit(edge.from, edge.from_start))
                ELSE IF c.seed.kind = "node" THEN NodeVisit(c.seed.node, FALSE)
                ELSE SnarlVisit(c.snarls[c.seed.snarl], FALSE)
           right_visit ==
                IF c.seed.kind = "edge"
                THEN right_of_edge(c, NodeVisit(edge.to, edge.to_end))
                ELSE left_visit
       IN bubble' = [bubble EXCEPT !.pc = "bfs_left",
                                   !.left_visit = left_visit,
                                   !.right_visit = right_visit,
                                   !.bfs = StartBfs(left_visit, FALSE)]
    /\ UNCHANGED <<bubble_call, outside_bubble>>

\* bfs_left takes a path off the queue: from the left visit or, for
\* bfs_right, from the right visit reversed.
BfsLeftExtends ==
    /\ bubble.pc \in {"bfs_left", "bfs_right"}
    /\ bubble.bfs.toExtend # <<>>
    /\ bubble' = [bubble EXCEPT
                    !.bfs = bfs_left_iteration(bubble_call, bubble.bfs)]
    /\ UNCHANGED <<bubble_call, outside_bubble>>

\* bfs_left returns to find_bubble, which calls bfs_right.
BfsLeftReturns ==
    /\ bubble.pc = "bfs_left"
    /\ bubble.bfs.toExtend = <<>>
    /\ bubble' = [bubble EXCEPT
                    !.pc = "bfs_right",
                    !.leftPaths = PathsInSetOrder(bubble.bfs.toReturn),
                    !.bfs = StartBfs(reverse(bubble.right_visit), FALSE)]
    /\ UNCHANGED <<bubble_call, outside_bubble>>

\* bfs_right returns to find_bubble, which starts on the combinations.
BfsRightReturns ==
    /\ bubble.pc = "bfs_right"
    /\ bubble.bfs.toExtend = <<>>
    /\ bubble' = [bubble EXCEPT
                    !.pc = "combine",
                    !.rightPaths =
                        PathsInSetOrder(bfs_right_paths(bubble.bfs.toReturn)),
                    !.bfs = NoBfs,
                    !.left = 1, !.right = 1]
    /\ UNCHANGED <<bubble_call, outside_bubble>>

\* testCombinations: one left path against one right path.
TestCombination ==
    /\ bubble.pc = "combine"
    /\ bubble.left <= Len(bubble.leftPaths)
    /\ bubble.right <= Len(bubble.rightPaths)
    /\ LET last == bubble.right = Len(bubble.rightPaths)
           next == [bubble EXCEPT
                        !.left = IF last THEN @ + 1 ELSE @,
                        !.right = IF last THEN 1 ELSE @ + 1]
       IN bubble' = test_combination(bubble_call, next,
                                     bubble.leftPaths[bubble.left],
                                     bubble.rightPaths[bubble.right])
    /\ UNCHANGED <<bubble_call, outside_bubble>>

\* testCombinations runs out of combinations and returns the best.
FindBubbleReturns ==
    /\ bubble.pc = "combine"
    /\ \/ bubble.left > Len(bubble.leftPaths)
       \/ bubble.rightPaths = <<>>
    /\ bubble' = [bubble EXCEPT !.pc = "returned"]
    /\ UNCHANGED <<bubble_call, outside_bubble>>

BubbleNext ==
    \/ FindBubble
    \/ BfsLeftExtends
    \/ BfsLeftReturns
    \/ BfsRightReturns
    \/ TestCombination
    \/ FindBubbleReturns

\* find_bubble is called for its searches: on any graph, seed, max_depth
\* and max_width, with no supports supplied.
CallFindBubble ==
    /\ bubble_call = NoBubbleCall
    /\ bubble = IdleBubble
    /\ \E chosen \in {s \in SUBSET OffEdges : Cardinality(s) <= MaxOffEdges} :
       \E seed \in Seeds(chosen) :
       \E max_depth \in 0..MaxDepth :
       \E max_width \in 0..MaxWidth :
          bubble_call' =
            [seed |-> seed,
             edges |-> BackboneEdges \cup chosen,
             snarls |-> <<BubbleSite>>
                        \o (IF HasChild(chosen) THEN <<BubbleChild>>
                            ELSE <<>>),
             in_snarl |-> 1,
             index |-> PathIndex(Backbone(FALSE), "unit"),
             node_supports |-> <<>>,
             edge_supports |-> <<>>,
             max_depth |-> max_depth,
             max_width |-> max_width,
             max_bubble_paths |-> MaxBubblePaths]
    /\ UNCHANGED <<bubble, outside_bubble>>

\* A search has a step to take: a path to take off the queue, or the
\* return of bfs_left.
SearchRunning ==
    \/ bubble.pc = "bfs_left"
    \/ bubble.pc = "bfs_right" /\ bubble.bfs.toExtend # <<>>

\* The two searches of find_bubble alone.
BfsNext ==
    \/ CallFindBubble
    \/ FindBubble
    \/ BfsLeftExtends
    \/ BfsLeftReturns
    \/ BfsRightReturns

BubbleIdle ==
    /\ bubble_call = NoBubbleCall
    /\ bubble = IdleBubble

(***************************************************************************)
(* extend_into_allele.  find_traversals hands it, one after the other, the *)
(* bubble paths that find_bubble returned; it splices each into the        *)
(* reference path through the site and adds the result to the set of       *)
(* traversals.                                                             *)
(***************************************************************************)
\* The most visits on the reference path through a site.
MaxRefLen == 4

\* What the visits of a reference path are to: the first and the last to a
\* node, the others to a node or to a child snarl.
RefKinds ==
    UNION {{kinds \in [1..n -> {"node", "child"}] :
                kinds[1] = "node" /\ kinds[n] = "node"} : n \in 2..MaxRefLen}

\* The k-th visit of a reference path: to node 2k - 1, or to the child snarl
\* from node 2k - 1 to node 2k.
RefChild(k) ==
    [start |-> NodeVisit(2 * k - 1, FALSE), end |-> NodeVisit(2 * k, FALSE)]

RefVisit(kinds, k) ==
    IF kinds[k] = "node" THEN NodeVisit(2 * k - 1, FALSE)
    ELSE SnarlVisit(RefChild(k), FALSE)

RefPath(kinds) == [k \in 1..Len(kinds) |-> RefVisit(kinds, k)]

\* Nodes that are not on any reference path.
OffRefNode == 2 * MaxRefLen + 1
StrayNode == 2 * MaxRefLen + 2

\* The visits a bubble path can start with when it leaves the reference
\* path at its a-th visit, and end with when it joins it at its b-th: the
\* node, or for a child snarl its boundary node on that side or the child.
LeavesAt(kinds, a) ==
    IF kinds[a] = "node" THEN {RefVisit(kinds, a)}
    ELSE {RefChild(a).end, RefVisit(kinds, a)}

JoinsAt(kinds, b) ==
    IF b = 0 THEN {NodeVisit(StrayNode, FALSE)}
    ELSE IF kinds[b] = "node" THEN {RefVisit(kinds, b)}
    ELSE {RefChild(b).start, RefVisit(kinds, b)}

\* The bubble paths on a reference path: from one of its visits, over no
\* node or one node off it, to another of its visits, further on or further
\* back, or to a node that is not on it; or one visit to a child snarl of it.
BubblesBetween(kinds, a, b) ==
    {[path |-> <<l>> \o via \o <<r>>, left |-> a, right |-> b, via |-> via] :
        l \in LeavesAt(kinds, a), r \in JoinsAt(kinds, b),
        via \in {<<>>, <<NodeVisit(OffRefNode, FALSE)>>}}

Bubbles(kinds) ==
    UNION {BubblesBetween(kinds, ends[1], ends[2]) :
            ends \in {x \in (1..Len(kinds)) \X (0..Len(kinds)) :
                        x[1] # x[2]}}
    \cup {[path |-> <<RefVisit(kinds, a)>>, left |-> a, right |-> a,
           via |-> <<>>] : a \in {k \in 1..Len(kinds) : kinds[k] = "child"}}

\* The same bubble when the reference path runs against the site.
Mirrored(bubble_path, length) ==
    [path |-> Oriented(bubble_path.path, TRUE),
     left |-> length + 1 - bubble_path.right,
     right |-> length + 1 - bubble_path.left,
     via |-> Oriented(bubble_path.via, TRUE)]

\* find_bubble returned an empty path.
EmptyBubble == [path |-> <<>>, left |-> 0, right |-> 0, via |-> <<>>]

\* The bubble paths found on a reference path that runs along the site or
\* against it.
BubblesFound(kinds, against) ==
    IF against
    THEN {Mirrored(b, Len(kinds)) : b \in {x \in Bubbles(kinds) : x.right # 0}}
    ELSE Bubbles(kinds)

NoSpliceCall == [ref |-> <<>>, bubbles |-> <<>>]

IdleSplice ==
    [pc |-> "idle", next |-> 0, site_traversal_set |-> {}, results |-> <<>>,
     failure |-> ""]

\* A reference path and what find_bubble returned for two seeds: for the
\* first possibly nothing.
SpliceInit ==
    /\ \E kinds \in RefKinds : \E against \in BOOLEAN :
       \E second \in BubblesFound(kinds, against) :
       \E first \in BubblesFound(kinds, against) \cup {EmptyBubble} :
            splice_call = [ref |-> Oriented(RefPath(kinds), against),
                           bubbles |-> <<first, second>>]
    /\ splice = [IdleSplice EXCEPT !.pc = "seeds", !.next = 1]

\* find_traversals: find_bubble returned an empty path, and the loop goes
\* on to the next seed.
NoBubbleFound ==
    /\ splice.pc = "seeds"
    /\ splice.next <= Len(splice_call.bubbles)
    /\ splice_call.bubbles[splice.next].path = <<>>
    /\ splice' = [splice EXCEPT !.next = @ + 1,
                                !.results = Append(@, EmptyBubble)]
    /\ UNCHANGED <<splice_call, outside_splice>>

\* find_traversals calls extend_into_allele on the path find_bubble
\* returned: the spliced path joins the set, or the exception ends the call.
ExtendIntoAllele ==
    /\ splice.pc = "seeds"
    /\ splice.next <= Len(splice_call.bubbles)
    /\ splice_call.bubbles[splice.next].path # <<>>
    /\ LET extended == extend_into_allele(splice_call.ref,
                                          splice_call.bubbles[splice.next].path)
       IN splice' =
            IF extended.failed
            THEN [splice EXCEPT !.pc = "failed",
                                !.failure = extended.failure,
                                !.results = Append(@, extended)]
            ELSE [splice EXCEPT
                    !.next = @ + 1,
                    !.site_traversal_set = @ \cup {extended.extended_path},
                    !.results = Append(@, extended)]
    /\ UNCHANGED <<splice_call, outside_splice>>

\* find_traversals: the loops over the seeds are over.
SeedsDone ==
    /\ splice.pc = "seeds"
    /\ splice.next > Len(splice_call.bubbles)
    /\ splice' = [splice EXCEPT !.pc = "emit"]
    /\ UNCHANGED <<splice_call, outside_splice>>

SpliceNext ==
    \/ NoBubbleFound
    \/ ExtendIntoAllele
    \/ SeedsDone

SpliceIdle ==
    /\ splice_call = NoSpliceCall
    /\ splice = IdleSplice

(***************************************************************************)
(* find_traversals with the searches of find_bubble run for each seed, on  *)
(* a diamond: the site's start A, a node B on the backbone and a node C    *)
(* off it, each joined to A and to the site's end D.                       *)
(***************************************************************************)
DiamondLayout == <<"node">>

DiamondNodes ==
    [A |-> SiteNodes.start, B |-> ItemFirst(1), C |-> AltNode(1),
     D |-> SiteNodes.end]

DiamondAllele ==
    [from |-> DiamondNodes.A, via |-> <<DiamondNodes.C>>,
     to |-> DiamondNodes.D]

\* The supports of the diamond: none loaded, or an entry for every node and
\* every edge, of no reads or of five.
FiveReads == make_support(5, 0, 0)

DiamondSupports ==
    LET nodes == {DiamondNodes.A, DiamondNodes.B, DiamondNodes.C,
                  DiamondNodes.D}
        edges == GraphEdges(DiamondLayout, FALSE, DiamondAllele)
    IN {Unsupplied}
       \cup {[node_supports |->
                [n \in nodes |-> IF n \in read_nodes THEN FiveReads
                                 ELSE NoSupport],
              edge_supports |->
                [e \in edges |-> IF e \in read_edges THEN FiveReads
                                 ELSE NoSupport]] :
                read_nodes \in SUBSET nodes, read_edges \in SUBSET edges}

\* The Edge of the graph between two nodes of the site, end to start.
graph_edge(e) == make_edge(Forward(e[1]), Forward(e[2]))

\* The call find_bubble(node, edge, snarl, index, site) of a finder with the
\* greatest limits, on the graph and the supports of the call of
\* find_traversals.
find_bubble_call(c, t, seed) ==
    [seed |-> seed,
     edges |-> {graph_edge(e) : e \in c.edges},
     snarls |-> c.snarls,
     in_snarl |-> manage(c.snarls, c.site),
     index |-> t.index,
     node_supports |-> c.node_supports,
     edge_supports |->
        [e \in {graph_edge(x) : x \in DOMAIN c.edge_supports} |->
            c.edge_supports[<<e.from, e.to>>]],
     max_depth |-> MaxDepth,
     max_width |-> MaxWidth,
     max_bubble_paths |-> MaxBubblePaths]

DiamondInit ==
    /\ \E supports \in DiamondSupports :
       \E path_backward \in BOOLEAN :
          call = [MakeCall("representative", "ULTRABUBBLE", DiamondLayout,
                           FALSE, path_backward, "unit", TRUE, DiamondAllele)
                    EXCEPT !.node_supports = supports.node_supports,
                           !.edge_supports = supports.edge_supports]
    /\ trav = IdleTraversal

\* One iteration of the loop over the nodes of the site up to the call of
\* find_bubble, or the loop's end.
NodeLoop ==
    /\ trav.pc = "nodes"
    /\ bubble_call = NoBubbleCall
    /\ IF trav.seeds = <<>>
       THEN /\ trav' = [trav EXCEPT
                            !.pc = "edges",
                            !.seeds = EdgesInOrder(
                                        contents_edges(call, trav.contents),
                                        trav.ord)]
            /\ UNCHANGED bubble_call
       ELSE IF \/ into_which_snarl_at(call.snarls, Head(trav.seeds), TRUE)
                    # nullptr
               \/ into_which_snarl_at(call.snarls, Head(trav.seeds), FALSE)
                    # nullptr
               \/ IsUnsupported(call, call.node_supports, Head(trav.seeds))
               \/ Head(trav.seeds) \in DOMAIN trav.index.by_id
       THEN /\ trav' = [trav EXCEPT !.seeds = Tail(@)]
            /\ UNCHANGED bubble_call
       ELSE /\ trav' = Searching(trav, "node", <<Head(trav.seeds)>>)
            /\ bubble_call' =
                    find_bubble_call(call, trav, NodeSeed(Head(trav.seeds)))
    /\ UNCHANGED <<call, bubble, finder_vars, search_vars, splice_vars,
                   alone_vars>>

\* One iteration of the loop over the edges of the site up to the call of
\* find_bubble, or the loop's end.
EdgeLoop ==
    /\ trav.pc = "edges"
    /\ bubble_call = NoBubbleCall
    /\ IF trav.seeds = <<>>
       THEN /\ trav' = [trav EXCEPT
                            !.pc = "children",
                            !.seeds = NodesInOrder(children_of(call.layout),
                                                   trav.ord)]
            /\ UNCHANGED bubble_call
       ELSE IF \/ IsUnsupported(call, call.edge_supports, Head(trav.seeds))
               \/ Head(trav.seeds)[1] \notin DOMAIN trav.index.by_id
               \/ Head(trav.seeds)[2] \notin DOMAIN trav.index.by_id
       THEN /\ trav' = [trav EXCEPT !.seeds = Tail(@)]
            /\ UNCHANGED bubble_call
       ELSE /\ trav' = Searching(trav, "edge", Head(trav.seeds))
            /\ bubble_call' =
                    find_bubble_call(call, trav,
                                     EdgeSeed(graph_edge(Head(trav.seeds))))
    /\ UNCHANGED <<call, bubble, finder_vars, search_vars, splice_vars,
                   alone_vars>>

\* One iteration of the loop over the children of the site up to the call
\* of find_bubble, or the loop's end.
ChildLoop ==
    /\ trav.pc = "children"
    /\ bubble_call = NoBubbleCall
    /\ IF trav.seeds = <<>>
       THEN /\ trav' = [trav EXCEPT !.pc = "emit"]
            /\ UNCHANGED bubble_call
       ELSE /\ trav' = Searching(trav, "child", <<Head(trav.seeds)>>)
            /\ bubble_call' =
                    find_bubble_call(call, trav, SnarlSeed(Head(trav.seeds)))
    /\ UNCHANGED <<call, bubble, finder_vars, search_vars, splice_vars,
                   alone_vars>>

\* find_bubble has returned: the rest of the iteration that called it.
BubbleReturned ==
    /\ trav.pc \in {"nodes", "edges", "children"}
    /\ bubble.pc = "returned"
    /\ trav' = AfterBubble(trav, bubble.bestBubblePath.second)
    /\ bubble_call' = NoBubbleCall
    /\ bubble' = IdleBubble
    /\ UNCHANGED <<call, finder_vars, search_vars, splice_vars, alone_vars>>

DiamondNext ==
    \/ RepresentativeFindTraversals
    \/ TraceReferencePath
    \/ CheckNodesLeft
    \/ NodeLoop
    \/ EdgeLoop
    \/ ChildLoop
    \/ FindBubble
    \/ BfsLeftExtends
    \/ BfsLeftReturns
    \/ BfsRightReturns
    \/ TestCombination
    \/ FindBubbleReturns
    \/ BubbleReturned
    \/ EmitTraversals

\* The representative finder called on a site of any layout, with or
\* without an allele off the path, on a graph without supports.
NestedInit ==
    /\ \E layout \in Layouts :
       \E path_backward \in BOOLEAN :
       \E has_primary \in BOOLEAN :
       \E allele \in {NoAllele} \cup Alleles(layout) :
          /\ allele # NoAllele => AlleleFits(layout, allele)
          /\ call = MakeCall("representative", "ULTRABUBBLE", layout, FALSE,
                             path_backward, "unit", has_primary, allele)
    /\ trav = IdleTraversal

(***************************************************************************)
(* The arithmetic of Supports.                                             *)
(***************************************************************************)
Min(a, b) == IF b < a THEN b ELSE a

Max(a, b) == IF a < b THEN b ELSE a

\* support_max: the greater forward, reverse and quality; left and right are
\* not set and keep the zero of a new Support.
support_max(a, b) ==
    [forward |-> Max(a.forward, b.forward),
     reverse |-> Max(a.reverse, b.reverse),
     left |-> 0, right |-> 0,
     quality |-> Max(a.quality, b.quality)]

\* operator+: every field is the sum of the two.
operator_plus(one, other) ==
    [forward |-> one.forward + other.forward,
     reverse |-> one.reverse + other.reverse,
     left |-> one.left + other.left,
     right |-> one.right + other.right,
     quality |-> one.quality + other.quality]

\* The Support message: five numeric fields.
Support ==
    [forward : 0..MaxSupport, reverse : 0..MaxSupport, left : 0..MaxSupport,
     right : 0..MaxSupport, quality : 0..MaxSupport]

NoArith == [called |-> "none", a |-> NoSupport, b |-> NoSupport,
            returned |-> NoSupport, number |-> 0]

ArithIdle == arith = NoArith

\* Two Supports as reads on nodes and edges can make them.
ArithInit == \E a \in Support, b \in Support :
    arith = [NoArith EXCEPT !.a = a, !.b = b]

CallSupportMin ==
    /\ arith.called = "none"
    /\ arith' = [arith EXCEPT !.called = "support_min",
                              !.returned = support_min(arith.a, arith.b)]
    /\ UNCHANGED <<split, sampling, exhaustive, path_finder, outside_alone>>

CallSupportMax ==
    /\ arith.called = "none"
    /\ arith' = [arith EXCEPT !.called = "support_max",
                              !.returned = support_max(arith.a, arith.b)]
    /\ UNCHANGED <<split, sampling, exhaustive, path_finder, outside_alone>>

CallOperatorPlus ==
    /\ arith.called = "none"
    /\ arith' = [arith EXCEPT !.called = "operator+",
                              !.returned = operator_plus(arith.a, arith.b)]
    /\ UNCHANGED <<split, sampling, exhaustive, path_finder, outside_alone>>

CallTotal ==
    /\ arith.called = "none"
    /\ arith' = [arith EXCEPT !.called = "total", !.number = total(arith.a)]
    /\ UNCHANGED <<split, sampling, exhaustive, path_finder, outside_alone>>

ArithNext ==
    \/ CallSupportMin
    \/ CallSupportMax
    \/ CallOperatorPlus
    \/ CallTotal

(***************************************************************************)
(* advance_split.                                                          *)
(***************************************************************************)
\* The most categories of a split and the most items in a category.
MaxCategories == 4
MaxCount == 2

RECURSIVE Sum(_)
Sum(counts) == IF counts = <<>> THEN 0 ELSE Head(counts) + Sum(Tail(counts))

\* What a call leaves: the categories, what it returned, and whether it
\* read or wrote *end.
SplitResult(categories, returned, out_of_range) ==
    [categories |-> categories, returned |-> returned,
     out_of_range |-> out_of_range]

\* The body that moves an item, entered with start at position i of the
\* categories (1-based) and next at i + 1, *start nonzero and next before
\* end. "*start--" and "*next++" read the two categories and move the two
\* iterators: no count changes, and next is at i + 2.  The reset adds the
\* last category to *next and clears the last category unless next is the
\* last category; with next at end the sum is written past the categories.
move_item(categories, i) ==
    LET next == i + 2
        next_to_last == Len(categories)
        end == Len(categories) + 1
    IN IF next_to_last = next THEN SplitResult(categories, TRUE, FALSE)
       ELSE IF next = end
       THEN SplitResult([categories EXCEPT ![next_to_last] = 0], TRUE, TRUE)
       ELSE SplitResult([categories EXCEPT
                            ![next] = @ + categories[next_to_last],
                            ![next_to_last] = 0], TRUE, FALSE)

\* advance_split(start, end) with start at position i: the categories after
\* start are advanced first, and only when they cannot be is an item moved.
RECURSIVE advance_split_from(_, _)
advance_split_from(categories, i) ==
    LET end == Len(categories) + 1
        next == i + 1
    IN IF i = end THEN SplitResult(categories, FALSE, FALSE)
       ELSE LET rest == advance_split_from(categories, next)
            IN IF rest.returned THEN rest
               ELSE IF categories[i] # 0 /\ next # end
               THEN move_item(categories, i)
               ELSE SplitResult(categories, FALSE, FALSE)

advance_split(categories) == advance_split_from(categories, 1)

\* Every sequence of n counts.
Splits(n) == [1..n -> 0..MaxCount]

NoSplit == [pc |-> "idle", categories |-> <<>>, before |-> <<>>,
            returned |-> FALSE, out_of_range |-> FALSE]

SplitIdle == split = NoSplit

\* A vector of counts, of any length.
SplitInit == \E n \in 0..MaxCategories : \E categories \in Splits(n) :
    split = [NoSplit EXCEPT !.pc = "start", !.categories = categories,
                            !.before = categories]

\* One call of advance_split on the whole vector.  A write past the end of
\* the vector either goes unnoticed or stops the program.
AdvanceSplit ==
    /\ split.pc = "start"
    /\ LET result == advance_split(split.categories)
       IN \E stopped \in IF result.out_of_range THEN BOOLEAN ELSE {FALSE} :
            split' = [split EXCEPT
                        !.pc = IF stopped THEN "crashed" ELSE "returned",
                        !.categories = result.categories,
                        !.returned = result.returned,
                        !.out_of_range = result.out_of_range]
    /\ UNCHANGED <<arith, sampling, exhaustive, path_finder, outside_alone>>

SplitNext == AdvanceSplit

(***************************************************************************)
(* multinomial_censored_sampling_prob_ln.                                  *)
(***************************************************************************)
\* The most categories with a probability and the most classes observed.
MaxProbs == 3
MaxClasses == 2

\* multinomial_choose_ln(n, k) sums the buckets and asserts that they hold
\* the n items; this is whether the assertion passes.
multinomial_choose_ln(n, k) == Sum(k) = n

\* The number of set bits of a class.
RECURSIVE set_bits(_)
set_bits(flags) ==
    IF flags = <<>> THEN 0
    ELSE (IF Head(flags) THEN 1 ELSE 0) + set_bits(Tail(flags))

\* The state a class starts from and is reset to: one spot per set bit and
\* all its reads in the first.
first_split(class) ==
    [i \in 1..set_bits(class.flags) |-> IF i = 1 THEN class.count ELSE 0]

\* What add_class_state adds to and remove_class_state takes from the
\* category counts: the k-th count of the state at the k-th flagged category.
class_state_counts(flags, state) ==
    [i \in 1..Len(flags) |->
        IF flags[i] THEN state[set_bits(SubSeq(flags, 1, i))] ELSE 0]

add_class_state(category_counts, flags, state) ==
    [i \in 1..Len(category_counts) |->
        category_counts[i] + class_state_counts(flags, state)[i]]

remove_class_state(category_counts, flags, state) ==
    [i \in 1..Len(category_counts) |->
        category_counts[i] - class_state_counts(flags, state)[i]]

\* The category counts after the states of classes from..to were added.
RECURSIVE add_class_states(_, _, _, _, _)
add_class_states(category_counts, obs, states, from, to) ==
    IF from > to THEN category_counts
    ELSE add_class_states(
            add_class_state(category_counts, obs[from].flags, states[from]),
            obs, states, from + 1, to)

NoSampling ==
    [pc |-> "idle", probs |-> 0, obs |-> <<>>, splits_by_class |-> <<>>,
     stack |-> <<>>, category_counts |-> <<>>, bucket_sum_is_n |-> TRUE,
     emitted |-> {}, emitted_again |-> FALSE, out_of_range |-> FALSE]

SamplingIdle == sampling = NoSampling

\* The flags of a class over the given number of categories, one set at
\* least (a class without a category fails the assertion on empty states).
Classes(probs) ==
    {flags \in [1..probs -> BOOLEAN] : \E i \in 1..probs : flags[i]}

\* An obs map over some categories, in the order the map iterates: classes
\* of different flags, each with a count.  The map holds a class at least:
\* on an empty map the loop takes stack.back() of an empty list, which is
\* undefined.
SamplingInit ==
    \E probs \in 1..MaxProbs : \E n \in 1..MaxClasses :
    \E flags \in [1..n -> Classes(probs)] : \E counts \in [1..n -> 0..MaxCount] :
        /\ \A i, j \in 1..n : i # j => flags[i] # flags[j]
        /\ sampling = [NoSampling EXCEPT
                !.pc = "start", !.probs = probs,
                !.obs = [i \in 1..n |->
                            [flags |-> flags[i], count |-> counts[i]]]]

\* The state is prepared, every class is put on the stack with its
\* multinomial coefficient, and its state is added to the category counts.
PrepareState ==
    /\ sampling.pc = "start"
    /\ LET obs == sampling.obs
           states == [i \in 1..Len(obs) |-> first_split(obs[i])]
       IN sampling' = [sampling EXCEPT
            !.pc = "emit",
            !.splits_by_class = states,
            !.stack = [i \in 1..Len(obs) |-> i],
            !.bucket_sum_is_n = \A i \in 1..Len(obs) :
                multinomial_choose_ln(obs[i].count, states[i]),
            !.category_counts = add_class_states(
                [i \in 1..sampling.probs |-> 0], obs, states, 1, Len(obs))]
    /\ UNCHANGED <<arith, split, exhaustive, path_finder, outside_alone>>

\* The current state is emitted.
EmitState ==
    /\ sampling.pc = "emit"
    /\ sampling' = [sampling EXCEPT
            !.pc = "advance",
            !.emitted = @ \cup {sampling.splits_by_class},
            !.emitted_again =
                @ \/ sampling.splits_by_class \in sampling.emitted]
    /\ UNCHANGED <<arith, split, exhaustive, path_finder, outside_alone>>

\* One round of the inner loop: the class at the back of the stack is taken
\* out of the category counts and advanced; when it cannot be, it is popped.
\* The loop is left when a class advanced or the stack is empty.  A write
\* past the end of a class's state either goes unnoticed or stops the
\* program.
AdvanceBack ==
    /\ sampling.pc = "advance"
    /\ sampling.stack # <<>>
    /\ LET back == sampling.stack[Len(sampling.stack)]
            flags == sampling.obs[back].flags
            removed == remove_class_state(sampling.category_counts, flags,
                                          sampling.splits_by_class[back])
            result == advance_split(sampling.splits_by_class[back])
            popped == SubSeq(sampling.stack, 1, Len(sampling.stack) - 1)
       IN \E stopped \in IF result.out_of_range THEN BOOLEAN ELSE {FALSE} :
            IF stopped
            THEN sampling' = [sampling EXCEPT !.pc = "crashed",
                                              !.out_of_range = TRUE]
            ELSE IF result.returned
            THEN sampling' = [sampling EXCEPT
                    !.pc = "refill",
                    !.out_of_range = @ \/ result.out_of_range,
                    !.splits_by_class[back] = result.categories,
                    !.category_counts =
                        add_class_state(removed, flags, result.categories),
                    !.bucket_sum_is_n = @ /\ multinomial_choose_ln(
                        sampling.obs[back].count, result.categories)]
            ELSE sampling' = [sampling EXCEPT
                    !.pc = IF popped = <<>> THEN "refill" ELSE "advance",
                    !.stack = popped,
                    !.category_counts = removed]
    /\ UNCHANGED <<arith, split, exhaustive, path_finder, outside_alone>>

\* After the inner loop: with something left on the stack every class after
\* its back is reset to its first split and pushed, and the outer loop goes
\* round; with an empty stack the function returns.
RefillStack ==
    /\ sampling.pc = "refill"
    /\ IF sampling.stack = <<>>
       THEN sampling' = [sampling EXCEPT !.pc = "done"]
       ELSE LET obs == sampling.obs
                back == sampling.stack[Len(sampling.stack)]
                states == [i \in 1..Len(obs) |->
                            IF i > back THEN first_split(obs[i])
                            ELSE sampling.splits_by_class[i]]
            IN sampling' = [sampling EXCEPT
                    !.pc = "emit",
                    !.splits_by_class = states,
                    !.stack = [i \in 1..Len(obs) |-> i],
                    !.bucket_sum_is_n = @ /\ \A i \in back + 1..Len(obs) :
                        multinomial_choose_ln(obs[i].count, states[i]),
                    !.category_counts = add_class_states(
                        sampling.category_counts, obs, states,
                        back + 1, Len(obs))]
    /\ UNCHANGED <<arith, split, exhaustive, path_finder, outside_alone>>

SamplingNext ==
    \/ PrepareState
    \/ EmitState
    \/ AdvanceBack
    \/ RefillStack

(***************************************************************************)
(* ExhaustiveTraversalFinder.                                              *)
(***************************************************************************)
\* The longest path the search is followed to.
MaxWalk == 6

\* to_rev_node_traversal(Visit, graph): the node of the visit in the
\* opposite orientation.
to_rev_node_traversal(visit) == get_handle(visit.node_id, ~visit.backward)

\* NodeTraversal::reverse: the same node in the other orientation.
reverse_traversal(node_traversal) ==
    get_handle(node_traversal[1], ~node_traversal[2])

\* NodeTraversal(nullptr), which marks on the stack where the edges out of
\* the head of the path begin.
stack_sentinel == get_handle(nullptr, FALSE)

\* VG::edges_of: the edges on a node, in the graph's order.
edges_of(edges, node_id) ==
    SelectSeq(edges, LAMBDA e : e.from = node_id \/ e.to = node_id)

\* The traversal an edge leads to from the walk head, or the sentinel when
\* the edge does not leave the side the walk leaves by.
walk_over(edge, walk_head) ==
    LET head_id == walk_head[1]
    IN IF walk_head[2]
       THEN IF edge.from = head_id /\ edge.from_start
            THEN get_handle(edge.to, edge.to_end)
            ELSE IF edge.to = head_id /\ ~edge.to_end
            THEN get_handle(edge.from, ~edge.from_start)
            ELSE stack_sentinel
       ELSE IF edge.from = head_id /\ ~edge.from_start
            THEN get_handle(edge.to, edge.to_end)
            ELSE IF edge.to = head_id /\ edge.to_end
            THEN get_handle(edge.from, ~edge.from_start)
            ELSE stack_sentinel

\* stack_up_valid_walks: what it pushes, first to last.
stack_up_valid_walks(edges, walk_head) ==
    LET on_head == edges_of(edges, walk_head[1])
        next == [i \in 1..Len(on_head) |-> walk_over(on_head[i], walk_head)]
    IN SelectSeq(next, LAMBDA n : n # stack_sentinel)

\* What entering the child at its start puts on the stack.
exits_from_start(into_snarl) ==
    (IF into_snarl.start_end_reachable
     THEN <<to_node_traversal(into_snarl.end)>> ELSE <<>>)
    \o (IF into_snarl.start_self_reachable
        THEN <<reverse_traversal(to_rev_node_traversal(into_snarl.start))>>
        ELSE <<>>)

\* What entering the child at its end puts on the stack.
exits_from_end(into_snarl) ==
    (IF into_snarl.start_end_reachable
     THEN <<reverse_traversal(to_node_traversal(into_snarl.start))>>
     ELSE <<>>)
    \o (IF into_snarl.end_self_reachable
        THEN <<to_rev_node_traversal(into_snarl.end)>> ELSE <<>>)

\* A snarl with its connectivity flags.
ConnectedSnarl(start, end, start_end, start_self, end_self) ==
    [start |-> start, end |-> end, start_end_reachable |-> start_end,
     start_self_reachable |-> start_self, end_self_reachable |-> end_self]

NoEntry == [side |-> "none", snarl |-> nullptr, pushed |-> <<>>]

NoExhaustive ==
    [pc |-> "idle", edges |-> <<>>, snarls |-> <<>>,
     include_reversing_traversals |-> FALSE,
     traversal_start |-> stack_sentinel, stop_at |-> {}, yield_at |-> {},
     stack |-> <<>>, path |-> <<>>, to_return |-> <<>>, entry |-> NoEntry]

ExhaustiveIdle == exhaustive = NoExhaustive

\* The graph the finder is called on: a site from node 1 to node 4 holding
\* a child snarl between nodes 2 and 3, read in either direction; edges
\* from 1 to 2 and from 3 to 4, and any of an edge past the child, an edge
\* from the end of 1 to the end of 3, and an edge from the start of 2 to
\* the start of 4.
ExhaustiveEdges ==
    <<make_edge(Forward(1), Forward(2)), make_edge(Forward(3), Forward(4))>>

OtherEdges ==
    {make_edge(Forward(1), Forward(4)),
     make_edge(Forward(1), NodeVisit(3, TRUE)),
     make_edge(NodeVisit(2, TRUE), Forward(4))}

\* The ways to put a set of edges in an order.
EdgeOrders(edges) ==
    {e \in [1..Cardinality(edges) -> edges] :
        \A i, j \in 1..Cardinality(edges) : i # j => e[i] # e[j]}

ExhaustiveInit ==
    \E flags \in [1..3 -> BOOLEAN], site_end_self \in BOOLEAN :
    \E include_reversing \in BOOLEAN, child_backward \in BOOLEAN :
    \E others \in SUBSET OtherEdges : \E other_edges \in EdgeOrders(others) :
        exhaustive = [NoExhaustive EXCEPT
            !.pc = "start",
            !.edges = ExhaustiveEdges \o other_edges,
            !.include_reversing_traversals = include_reversing,
            !.snarls =
                <<ConnectedSnarl(Forward(1), Forward(4), TRUE, FALSE,
                                 site_end_self),
                  IF child_backward
                  THEN ConnectedSnarl(NodeVisit(3, TRUE), NodeVisit(2, TRUE),
                                      flags[1], flags[2], flags[3])
                  ELSE ConnectedSnarl(Forward(2), Forward(3),
                                      flags[1], flags[2], flags[3])>>]

ExhaustiveSite == exhaustive.snarls[1]

\* find_traversals up to its first call of add_traversals, and the start of
\* that call.
ExhaustiveFindTraversals ==
    /\ exhaustive.pc = "start"
    /\ LET site_end == to_node_traversal(ExhaustiveSite.end)
           site_start == to_node_traversal(ExhaustiveSite.start)
           site_rev_start == get_handle(site_start[1], ~site_start[2])
       IN exhaustive' = [exhaustive EXCEPT
            !.pc = "first",
            !.traversal_start = site_start,
            !.stop_at = {site_end, site_rev_start},
            !.yield_at = {site_end} \cup
                (IF exhaustive.include_reversing_traversals
                 THEN {site_rev_start} ELSE {}),
            !.stack = <<site_start>>]
    /\ UNCHANGED <<arith, split, sampling, path_finder, outside_alone>>

InSearch == exhaustive.pc \in {"first", "second"} /\ exhaustive.stack # <<>>

StackBack == exhaustive.stack[Len(exhaustive.stack)]

StackPopped == SubSeq(exhaustive.stack, 1, Len(exhaustive.stack) - 1)

PathPopped == SubSeq(exhaustive.path, 1, Len(exhaustive.path) - 1)

\* A round of the loop that pops the sentinel: every edge out of the head of
\* the path has been followed, and the head comes off the path.
PopSentinel ==
    /\ InSearch
    /\ StackBack = stack_sentinel
    /\ exhaustive' = [exhaustive EXCEPT !.stack = StackPopped,
                                        !.path = PathPopped]
    /\ UNCHANGED <<arith, split, sampling, path_finder, outside_alone>>

\* A round that pops a traversal to stop at: the path with it is recorded as
\* a traversal when it is one to yield at, and the search goes no further.
StopAt ==
    /\ InSearch
    /\ StackBack \in exhaustive.stop_at
    /\ exhaustive' = [exhaustive EXCEPT
            !.stack = StackPopped,
            !.to_return =
                IF StackBack \in exhaustive.yield_at
                THEN Append(@, Append(exhaustive.path, to_visit(StackBack)))
                ELSE @]
    /\ UNCHANGED <<arith, split, sampling, path_finder, outside_alone>>

\* A round that pops a traversal pointing into a child snarl: the node and
\* the child are put on the path and the exits the child's flags give are
\* put on the stack.
EnterChild ==
    /\ InSearch
    /\ StackBack # stack_sentinel
    /\ StackBack \notin exhaustive.stop_at
    /\ Len(exhaustive.path) < MaxWalk
    /\ LET node_traversal == StackBack
           into == into_which_snarl_at(exhaustive.snarls, node_traversal[1],
                                       node_traversal[2])
       IN /\ into # nullptr
          /\ node_traversal # exhaustive.traversal_start
          /\ LET into_snarl == exhaustive.snarls[into]
                 at_start == /\ into_snarl.start.node_id = node_traversal[1]
                             /\ into_snarl.start.backward = node_traversal[2]
                 pushed == IF at_start THEN exits_from_start(into_snarl)
                           ELSE exits_from_end(into_snarl)
             IN exhaustive' = [exhaustive EXCEPT
                    !.stack = StackPopped \o <<stack_sentinel, stack_sentinel>>
                              \o pushed,
                    !.path = @ \o <<to_visit(node_traversal),
                                    SnarlVisit(into_snarl, FALSE)>>,
                    !.entry = [side |-> IF at_start THEN "start" ELSE "end",
                               snarl |-> into, pushed |-> pushed]]
    /\ UNCHANGED <<arith, split, sampling, path_finder, outside_alone>>

\* A round that pops any other traversal: the node is put on the path and
\* the traversals its edges lead to are put on the stack.
StackUp ==
    /\ InSearch
    /\ StackBack # stack_sentinel
    /\ StackBack \notin exhaustive.stop_at
    /\ Len(exhaustive.path) < MaxWalk
    /\ LET node_traversal == StackBack
           into == into_which_snarl_at(exhaustive.snarls, node_traversal[1],
                                       node_traversal[2])
       IN /\ into = nullptr \/ node_traversal = exhaustive.traversal_start
          /\ exhaustive' = [exhaustive EXCEPT
                !.stack = StackPopped \o <<stack_sentinel>>
                          \o stack_up_valid_walks(exhaustive.edges,
                                                  node_traversal),
                !.path = Append(@, to_visit(node_traversal))]
    /\ UNCHANGED <<arith, split, sampling, path_finder, outside_alone>>

\* The stack is empty and add_traversals returns: after the first call
\* find_traversals calls it again from the reversed end of the site when
\* the end is reachable from itself and reversing traversals are wanted.
AddTraversalsReturns ==
    /\ exhaustive.pc \in {"first", "second"}
    /\ exhaustive.stack = <<>>
    /\ IF /\ exhaustive.pc = "first"
          /\ ExhaustiveSite.end_self_reachable
          /\ exhaustive.include_reversing_traversals
       THEN LET site_end == to_node_traversal(ExhaustiveSite.end)
                site_start == to_node_traversal(ExhaustiveSite.start)
                site_rev_start == get_handle(site_start[1], ~site_start[2])
                rev_end == get_handle(site_end[1], ~site_end[2])
            IN exhaustive' = [exhaustive EXCEPT
                    !.pc = "second",
                    !.traversal_start = rev_end,
                    !.yield_at = @ \ {site_rev_start},
                    !.stack = <<rev_end>>,
                    !.path = <<>>]
       ELSE exhaustive' = [exhaustive EXCEPT !.pc = "done"]
    /\ UNCHANGED <<arith, split, sampling, path_finder, outside_alone>>

ExhaustiveNext ==
    \/ ExhaustiveFindTraversals
    \/ PopSentinel
    \/ StopAt
    \/ EnterChild
    \/ StackUp
    \/ AddTraversalsReturns

(***************************************************************************)
(* PathBasedTraversalFinder.                                               *)
(***************************************************************************)
\* The values of the SnarlType enumeration.
SnarlTypeValue == [UNCLASSIFIED |-> 0, ULTRABUBBLE |-> 1, UNARY |-> 2]

\* The C++ operator ! on a number, as a number: 1 for zero and 0 otherwise.
logical_not(value) == IF value = 0 THEN 1 ELSE 0

\* The test "!site.type() == ULTRABUBBLE": the negation binds to the type
\* and its result is compared with the value of ULTRABUBBLE.
not_an_ultrabubble(type) ==
    logical_not(SnarlTypeValue[type]) = SnarlTypeValue["ULTRABUBBLE"]

\* The paths a graph may hold, by name: a reference path, two allele paths
\* of one variant (one of them over no node) and an allele path of another.
\* alt: the name matches "_alt_.*"; hash: the variant hash the name holds.
GraphPaths ==
    {[name |-> 1, alt |-> FALSE, hash |-> 0, nodes |-> <<1, 2, 4>>],
     [name |-> 2, alt |-> TRUE, hash |-> 1, nodes |-> <<3>>],
     [name |-> 3, alt |-> TRUE, hash |-> 1, nodes |-> <<>>],
     [name |-> 4, alt |-> TRUE, hash |-> 2, nodes |-> <<2>>]}

NoPathFinder ==
    [pc |-> "idle", type |-> "UNCLASSIFIED", start |-> NullVisit,
     end |-> NullVisit, contents |-> {}, gpaths |-> {},
     var_path_names |-> <<>>, path_processed |-> {}, ret |-> <<>>]

PathFinderIdle == path_finder = NoPathFinder

\* A site of any type (a unary one ends on its start, reversed), the nodes
\* in it, and the paths of the graph.
PathFinderInit ==
    \E type \in DOMAIN SnarlTypeValue, gpaths \in SUBSET GraphPaths :
    \E contents \in {{1, 2, 4}, {1, 2, 3, 4}} :
        path_finder = [NoPathFinder EXCEPT
            !.pc = "start", !.type = type, !.gpaths = gpaths,
            !.start = Forward(1),
            !.end = IF type = "UNARY" THEN NodeVisit(1, TRUE) ELSE Forward(4),
            !.contents = contents]

\* The names of a set<string>, in its order.
RECURSIVE in_name_order(_)
in_name_order(names) ==
    IF names = {} THEN <<>>
    ELSE LET first == CHOOSE n \in names : \A o \in names : n <= o
         IN <<first>> \o in_name_order(names \ {first})

\* graph.paths.of_node: the names of the paths over a node.
of_node(gpaths, node_id) ==
    {p.name : p \in {q \in gpaths : \E i \in DOMAIN q.nodes :
                                        q.nodes[i] = node_id}}

PathNamed(name) == CHOOSE p \in path_finder.gpaths : p.name = name

\* basename_to_pathnames of a variant hash: the paths whose names hold it.
allele_path_names(gpaths, variant_hash) ==
    {p.name : p \in {q \in gpaths : q.hash = variant_hash}}

\* The type test: a snarl that is not an ultrabubble gets no traversals.
CheckType ==
    /\ path_finder.pc = "start"
    /\ path_finder' = [path_finder EXCEPT
            !.pc = IF not_an_ultrabubble(path_finder.type) THEN "returned"
                   ELSE "collect"]
    /\ UNCHANGED <<arith, split, sampling, exhaustive, outside_alone>>

\* The allele paths over the nodes of the snarl are collected, with every
\* path of the graph whose name holds the variant hash of one of them.
CollectPaths ==
    /\ path_finder.pc = "collect"
    /\ LET gpaths == path_finder.gpaths
           on_nodes == {pn \in UNION {of_node(gpaths, n) :
                                        n \in path_finder.contents} :
                            PathNamed(pn).alt}
           names == UNION {allele_path_names(gpaths, PathNamed(pn).hash) :
                                pn \in on_nodes}
       IN path_finder' = [path_finder EXCEPT
            !.pc = "build",
            !.var_path_names = in_name_order(names),
            !.path_processed = {}]
    /\ UNCHANGED <<arith, split, sampling, exhaustive, outside_alone>>

\* The traversal of an allele path: the start of the site, the nodes of the
\* path, and the end of the site.
fresh_trav(site_start, site_end, path) ==
    [name |-> path.name,
     visit |-> <<site_start>>
               \o [i \in DOMAIN path.nodes |-> Forward(path.nodes[i])]
               \o <<site_end>>]

\* One round of the loop over the collected paths: for an allele path not
\* yet processed, a traversal for every path of its variant.
BuildTraversals ==
    /\ path_finder.pc = "build"
    /\ path_finder.var_path_names # <<>>
    /\ LET cpath == Head(path_finder.var_path_names)
           skipped == \/ ~PathNamed(cpath).alt
                      \/ cpath \in path_finder.path_processed
           alleles == in_name_order(
                        allele_path_names(path_finder.gpaths,
                                          PathNamed(cpath).hash))
       IN path_finder' = [path_finder EXCEPT
            !.var_path_names = Tail(@),
            !.ret = IF skipped THEN @
                    ELSE @ \o [i \in DOMAIN alleles |->
                                fresh_trav(path_finder.start, path_finder.end,
                                           PathNamed(alleles[i]))],
            !.path_processed = IF skipped THEN @
                               ELSE @ \cup SeqRange(alleles)]
    /\ UNCHANGED <<arith, split, sampling, exhaustive, outside_alone>>

\* After the loop every collected path has been processed, and the
\* traversals are returned.
ReturnTraversals ==
    /\ path_finder.pc = "build"
    /\ path_finder.var_path_names = <<>>
    /\ path_finder' = [path_finder EXCEPT !.pc = "returned"]
    /\ UNCHANGED <<arith, split, sampling, exhaustive, outside_alone>>

PathFinderNext ==
    \/ CheckType
    \/ CollectPaths
    \/ BuildTraversals
    \/ ReturnTraversals

TraversalIdle ==
    /\ call = NoCall
    /\ trav = IdleTraversal

FinderIdle ==
    /\ decomposition = MakeDecomposition(0, 0, <<>>, <<>>, <<>>, <<>>)
    /\ status = "idle"
    /\ stack = <<>>
    /\ destination = EmptySnarlManager
    /\ events = <<>>
    /\ run = 1
    /\ first_result = {}

SearchIdle ==
    /\ net_input = [start |-> NullVisit, end |-> NullVisit, net_graph |-> {}]
    /\ net_flags = NoFlags

AloneIdle ==
    /\ ArithIdle
    /\ SplitIdle
    /\ SamplingIdle
    /\ ExhaustiveIdle
    /\ PathFinderIdle

OthersIdle ==
    FinderIdle /\ SearchIdle /\ TraversalIdle /\ BubbleIdle /\ SpliceIdle

vars ==
    <<finder_vars, search_vars, traversal_vars, bubble_vars, splice_vars,
      alone_vars>>

Init ==
    /\ FinderInit /\ SearchIdle /\ TraversalIdle /\ BubbleIdle /\ SpliceIdle
    /\ AloneIdle

Next == FinderNext

\* find_snarls run on a decomposition, twice.
Spec == Init /\ [][Next]_vars

InitSearch ==
    /\ SearchInit /\ FinderIdle /\ TraversalIdle /\ BubbleIdle /\ SpliceIdle
    /\ AloneIdle

\* The connectivity searches run on a net graph.
SpecSearch == InitSearch /\ [][SearchNext]_vars

InitTraversal ==
    /\ TraversalInit /\ FinderIdle /\ SearchIdle /\ BubbleIdle /\ SpliceIdle
    /\ AloneIdle

\* A traversal finder called on a site.
SpecTraversal == InitTraversal /\ [][TraversalNext]_vars

InitSupported ==
    /\ SupportedInit /\ FinderIdle /\ SearchIdle /\ BubbleIdle /\ SpliceIdle
    /\ AloneIdle

\* A traversal finder called on a site of a graph with supports.
SpecSupported == InitSupported /\ [][TraversalNext]_vars

InitBubble ==
    /\ BubbleInit /\ FinderIdle /\ SearchIdle /\ TraversalIdle /\ SpliceIdle
    /\ AloneIdle

\* find_bubble called on a seed in a site.
SpecBubble == InitBubble /\ [][BubbleNext]_vars

\* The searches of find_bubble, which go on as long as there is a path to
\* take off the queue.
InitBfs ==
    /\ BubbleIdle
    /\ FinderIdle /\ SearchIdle /\ TraversalIdle /\ SpliceIdle
    /\ AloneIdle

\* The loop of a search goes on while it can: weak fairness of its steps,
\* WF_vars(BfsLeftExtends \/ BfsLeftReturns), written out with the guards
\* of the two steps for ENABLED.
SpecBfs ==
    /\ InitBfs
    /\ [][BfsNext]_vars
    /\ \/ []<>(~SearchRunning)
       \/ []<><<BfsLeftExtends \/ BfsLeftReturns>>_vars

InitSplice ==
    /\ SpliceInit /\ FinderIdle /\ SearchIdle /\ TraversalIdle /\ BubbleIdle
    /\ AloneIdle

\* The bubble paths of a site spliced into its reference path.
SpecSplice == InitSplice /\ [][SpliceNext]_vars

InitDiamond ==
    /\ DiamondInit /\ FinderIdle /\ SearchIdle /\ BubbleIdle /\ SpliceIdle
    /\ AloneIdle

\* The representative finder called on the diamond, its searches included.
SpecDiamond == InitDiamond /\ [][DiamondNext]_vars

InitNested ==
    /\ NestedInit /\ FinderIdle /\ SearchIdle /\ BubbleIdle /\ SpliceIdle
    /\ AloneIdle

\* The representative finder called on a site with child snarls, its
\* searches included.
SpecNested == InitNested /\ [][DiamondNext]_vars

InitArith ==
    /\ ArithInit
    /\ SplitIdle /\ SamplingIdle /\ ExhaustiveIdle /\ PathFinderIdle
    /\ OthersIdle

\* The functions of Supports called on two of them.
SpecArith == InitArith /\ [][ArithNext]_vars

InitSplit ==
    /\ SplitInit
    /\ ArithIdle /\ SamplingIdle /\ ExhaustiveIdle /\ PathFinderIdle
    /\ OthersIdle

\* advance_split called on a vector of counts.
SpecSplit == InitSplit /\ [][SplitNext]_vars

InitSampling ==
    /\ SamplingInit
    /\ ArithIdle /\ SplitIdle /\ ExhaustiveIdle /\ PathFinderIdle
    /\ OthersIdle

\* multinomial_censored_sampling_prob_ln called on an obs map.
SpecSampling == InitSampling /\ [][SamplingNext]_vars

InitExhaustive ==
    /\ ExhaustiveInit
    /\ ArithIdle /\ SplitIdle /\ SamplingIdle /\ PathFinderIdle
    /\ OthersIdle

\* The exhaustive finder called on a site with a child snarl.
SpecExhaustive == InitExhaustive /\ [][ExhaustiveNext]_vars

InitPathFinder ==
    /\ PathFinderInit
    /\ ArithIdle /\ SplitIdle /\ SamplingIdle /\ ExhaustiveIdle
    /\ OthersIdle

\* The path-based finder called on a site.
SpecPathFinder == InitPathFinder /\ [][PathFinderNext]_vars

(***************************************************************************)
(* Properties of the snarl finder.                                         *)
(***************************************************************************)
Snarls == destination.snarls

SnarlPtrs == 1..Len(destination.snarls)

\* The managed children of managed snarl k: the members of the chains
\* registered with parent k.
ManagedChildren(k) ==
    UNION {{destination.chains[c].chain[m] :
                m \in 1..Len(destination.chains[c].chain)} :
            c \in {x \in 1..Len(destination.chains) :
                     destination.chains[x].parent = k}}

\* C1 as stated: a registered snarl has type UNARY exactly when its start
\* and end are equal as oriented Visits.
C1_UnaryIffSameVisit ==
    \A k \in SnarlPtrs :
        (Snarls[k].type = "UNARY") <=> (Snarls[k].start = Snarls[k].end)

\* C1 amended: a registered snarl has type UNARY exactly when its start and
\* end visits are on the same node (their node ids are equal), whatever
\* their orientations.
C1_UnaryIffSameNode ==
    \A k \in SnarlPtrs :
        (Snarls[k].type = "UNARY")
            <=> (Snarls[k].start.node_id = Snarls[k].end.node_id)

\* A unary snarl whose end is its start reversed has been registered next to
\* a snarl that is not unary.
C1_Witness ==
    /\ \E k \in SnarlPtrs :
          /\ Snarls[k].type = "UNARY"
          /\ Snarls[k].end = reverse(Snarls[k].start)
    /\ \E k \in SnarlPtrs :
          /\ Snarls[k].type # "UNARY"
          /\ Snarls[k].start.node_id # Snarls[k].end.node_id

C3_EndSelfUnclassified ==
    \A k \in SnarlPtrs :
        Snarls[k].end_self_reachable => Snarls[k].type = "UNCLASSIFIED"

\* C3 amended: every registered snarl whose end can reach itself and whose
\* start and end are on different nodes is UNCLASSIFIED, whatever its other
\* flags and its children's types.
C3_EndSelfUnclassifiedUnlessUnary ==
    \A k \in SnarlPtrs :
        (Snarls[k].end_self_reachable
            /\ Snarls[k].start.node_id # Snarls[k].end.node_id)
        => Snarls[k].type = "UNCLASSIFIED"

\* A snarl that only its end turnaround keeps from being an ULTRABUBBLE has
\* been registered.
C3_Witness ==
    \E k \in SnarlPtrs :
        /\ Snarls[k].end_self_reachable
        /\ Snarls[k].start.node_id # Snarls[k].end.node_id
        /\ Snarls[k].start_end_reachable
        /\ ~Snarls[k].start_self_reachable
        /\ Snarls[k].directed_acyclic_net_graph
        /\ \A m \in ManagedChildren(k) : Snarls[m].type = "ULTRABUBBLE"
        /\ Snarls[k].type = "UNCLASSIFIED"

\* The decision table of the classification, first matching rule first; the
\* first rule reads "start and end are on the same node".
DecisionTable(snarl, child_types) ==
    <<[applies |-> snarl.start.node_id = snarl.end.node_id, type |-> "UNARY"],
      [applies |-> ~snarl.start_end_reachable, type |-> "UNCLASSIFIED"],
      [applies |-> snarl.start_self_reachable \/ snarl.end_self_reachable,
       type |-> "UNCLASSIFIED"],
      [applies |-> child_types \ {"ULTRABUBBLE"} # {}, type |-> "UNCLASSIFIED"],
      [applies |-> ~snarl.directed_acyclic_net_graph, type |-> "UNCLASSIFIED"],
      [applies |-> TRUE, type |-> "ULTRABUBBLE"]>>

FirstMatch(table) ==
    table[CHOOSE r \in 1..Len(table) :
            table[r].applies /\ \A q \in 1..(r - 1) : ~table[q].applies].type

C5_FlagsAreReachability ==
    net_flags.computed =>
        LET g == net_input.net_graph
            S == HandleOf(net_input.start)
            E == HandleOf(net_input.end)
        IN /\ net_flags.flags.start_end_reachable
                <=> (E \in ReachableFrom(g, {S}))
           /\ net_flags.flags.start_self_reachable
                <=> (flip(S) \in ReachableFrom(g, {S}))
           /\ net_flags.flags.end_self_reachable
                <=> (E \in ReachableFrom(g, {flip(E)}))

\* The searches ran on a net graph where the first search stops early, both
\* of its targets found, with handles left unvisited, and the end can reach
\* itself only through an interior node.
C5_Witness ==
    /\ net_flags.computed
    /\ net_flags.flags.start_end_reachable
    /\ net_flags.flags.start_self_reachable
    /\ net_flags.flags.end_self_reachable
    /\ net_input.start.node_id # net_input.end.node_id
    /\ <<HandleOf(net_input.start), HandleOf(net_input.end)>>
            \in net_input.net_graph
    /\ <<flip(HandleOf(net_input.end)), HandleOf(net_input.end)>>
            \notin net_input.net_graph

\* The position of the add_snarl call for stSnarl id in events (0: none).
AddedAt(id) ==
    IF \E i \in 1..Len(events) :
            events[i].op = "add_snarl" /\ events[i].id = id
    THEN CHOOSE i \in 1..Len(events) :
            events[i].op = "add_snarl" /\ events[i].id = id
    ELSE 0

\* The stSnarl whose add_snarl call returned the managed pointer ptr.
IdOfPtr(ptr) ==
    IF ptr = nullptr THEN 0
    ELSE (CHOOSE e \in {events[i] : i \in 1..Len(events)} :
            e.op = "add_snarl" /\ e.snarl = ptr).id

\* C6: when a snarl is added to the SnarlManager every snarl of its child
\* chains in the decomposition has been added before it; and when a chain is
\* registered its members have been added, they are the children of one
\* snarl of the decomposition, and the parent it is registered under is that
\* snarl, added before, or null for the fake root.
C6_ChildrenBeforeParents ==
    /\ \A i \in 1..Len(events) :
          events[i].op = "add_snarl" =>
              \A c \in ChildrenOf(decomposition, events[i].id) :
                  AddedAt(c) # 0 /\ AddedAt(c) < i
    /\ \A i \in 1..Len(events) :
          events[i].op = "add_chain" =>
              /\ events[i].parent # nullptr =>
                    /\ AddedAt(IdOfPtr(events[i].parent)) # 0
                    /\ AddedAt(IdOfPtr(events[i].parent)) < i
              /\ \A m \in 1..Len(events[i].chain) :
                    /\ events[i].chain[m] # nullptr
                    /\ AddedAt(IdOfPtr(events[i].chain[m])) < i
                    /\ decomposition.parent[IdOfPtr(events[i].chain[m])]
                            = IdOfPtr(events[i].parent)

\* A run has ended in which a snarl with a chain child and a unary child was
\* added and its chains registered under it.
C6_Witness ==
    /\ status = "done"
    /\ \E i \in 1..Len(events) :
          /\ events[i].op = "add_chain"
          /\ events[i].parent # nullptr
          /\ decomposition.chain[IdOfPtr(events[i].chain[1])] = 0
    /\ \E i \in 1..Len(events) :
          /\ events[i].op = "add_chain"
          /\ events[i].parent = nullptr

\* C7: the second run of find_snarls on the same graph ends with the same
\* set of (start, end, type) triples as the first, whatever the order in
\* which the net graphs report their edges in either run.
C7_SameTriplesTwice ==
    (run = 2 /\ status = "done") => Triples(destination) = first_result

\* A second run has ended with an ULTRABUBBLE and an UNCLASSIFIED snarl
\* among its triples.
C7_Witness ==
    /\ run = 2
    /\ status = "done"
    /\ \E k \in SnarlPtrs : Snarls[k].type = "ULTRABUBBLE"
    /\ \E k \in SnarlPtrs : Snarls[k].type = "UNCLASSIFIED"

(***************************************************************************)
(* Properties of the traversal finders.                                    *)
(***************************************************************************)
\* C8: a finder called on a UNARY or UNCLASSIFIED snarl does nothing but
\* fail on its precondition: it never gets past the call, has made no
\* lookup or search when it fails, and returns no traversal.
C8_NonUltrabubbleRejected ==
    call.site.type # "ULTRABUBBLE" =>
        /\ trav.pc \in {"idle", "failed"}
        /\ trav.pc = "failed" =>
                trav.failure = "assert(site.type() == ULTRABUBBLE)"
        /\ trav.performed = <<>>
        /\ trav.unique_traversals = <<>>

\* The representative finder has been called on a UNARY snarl and failed.
C8_Witness ==
    /\ call.finder = "representative"
    /\ call.site.type = "UNARY"
    /\ trav.pc = "failed"

\* C9: the list the representative finder returns starts with the reference
\* traversal, holds it nowhere else, and holds no traversal twice.
C9_ReferenceFirstAndNoDuplicates ==
    (call.finder = "representative" /\ trav.pc = "returned") =>
        LET returned == trav.unique_traversals
            reference == emit_traversal(trav.ref_path_for_site,
                                        trav.site_start > trav.site_end)
        IN /\ Len(returned) >= 1
           /\ returned[1] = reference
           /\ \A i \in 2..Len(returned) : returned[i] # reference
           /\ \A i \in 1..Len(returned) : \A j \in 1..Len(returned) :
                 i # j => returned[i] # returned[j]

\* The finder has returned an alternate after the reference traversal, on a
\* path run against the site, with the reference path itself among the
\* spliced paths of the set.
C9_Witness ==
    /\ call.finder = "representative"
    /\ trav.pc = "returned"
    /\ call.path_backward
    /\ trav.ref_path_for_site \in trav.site_traversal_set
    /\ Len(trav.unique_traversals) >= 2
    /\ \E i \in 1..Len(trav.ref_path_for_site) :
          trav.ref_path_for_site[i].node_id = 0

\* The children of the site with both boundary nodes on the index, and the
\* first and last offsets of each on it.
ChildrenOnPath ==
    {p \in children_of(call.layout) :
        /\ call.snarls[p].start.node_id \in DOMAIN trav.index.by_id
        /\ call.snarls[p].end.node_id \in DOMAIN trav.index.by_id}

ChildOffsets(p) ==
    {trav.index.by_id[call.snarls[p].start.node_id].first,
     trav.index.by_id[call.snarls[p].end.node_id].first}

EntryOffset(p) == CHOOSE o \in ChildOffsets(p) : \A q \in ChildOffsets(p) : o <= q

ExitOffset(p) == CHOOSE o \in ChildOffsets(p) : \A q \in ChildOffsets(p) : o >= q

\* The offsets of the index between the site's two boundary coordinates
\* that are not part of the run of a child, and the offsets at which the
\* runs of the children start.
TraceOffsets ==
    {o \in DOMAIN trav.index.by_start :
        /\ o >= trav.site_start \/ o >= trav.site_end
        /\ o <= trav.site_start \/ o <= trav.site_end
        /\ \A p \in ChildrenOnPath : o < EntryOffset(p) \/ o > ExitOffset(p)}
    \cup {EntryOffset(p) : p \in ChildrenOnPath}

\* What the reference traversal holds for one of those offsets: the visit
\* of the index or, where a child's run starts, one Visit to the child,
\* backward if the path enters it through its end.
TraceVisit(o) ==
    IF \E p \in ChildrenOnPath : EntryOffset(p) = o
    THEN LET p == CHOOSE q \in ChildrenOnPath : EntryOffset(q) = o
         IN SnarlVisit(call.snarls[p],
                       trav.index.by_start[o] = reverse(call.snarls[p].end))
    ELSE trav.index.by_start[o]

ExpectedTrace ==
    [i \in 1..Cardinality(TraceOffsets) |->
        TraceVisit(CHOOSE o \in TraceOffsets :
                        Cardinality({q \in TraceOffsets : q < o}) = i - 1)]

\* C10: for a site whose boundaries are on the primary path, the trace of
\* the reference path ends without a failure, and ref_path_for_site is then
\* the index's visits between the two boundary coordinates, each run of a
\* child replaced by one Visit to the child, oriented by the side entered,
\* back-to-back children included.
C10_ReferenceTraceCollapsesChildren ==
    (call.finder = "representative" /\ call.has_primary
        /\ call.site.type = "ULTRABUBBLE") =>
        /\ trav.pc = "failed" =>
                trav.failure \notin
                    {"No backbone node found when tracing through site!",
                     "assert(found != index.by_start.end())",
                     "assert(contents.first.count(here))"}
        /\ trav.pc \in {"nodes_left", "nodes", "edges", "children", "emit",
                        "returned"} =>
                trav.ref_path_for_site = ExpectedTrace

\* The trace has ended on a path that runs against the site, on through the
\* neighbouring snarls, over nodes of different lengths and through two
\* back-to-back children.
C10_Witness ==
    /\ call.finder = "representative"
    /\ call.has_primary
    /\ call.path_backward
    /\ call.in_chain
    /\ call.scheme = "varied"
    /\ \E k \in DOMAIN call.layout : Abuts(call.layout[k])
    /\ trav.pc = "nodes_left"
    /\ Len(trav.ref_path_for_site) = 4


OnBackbone(node_id) == node_id \in DOMAIN trav.index.by_id

IsChildBoundary(node_id) ==
    \/ into_which_snarl_at(call.snarls, node_id, TRUE) # nullptr
    \/ into_which_snarl_at(call.snarls, node_id, FALSE) # nullptr

HasSupports == has_supports(call.node_supports, call.edge_supports)

NodeSupported(node_id) == total(get_support(call.node_supports, node_id)) # 0

EdgeSupported(edge) == total(get_support(call.edge_supports, edge)) # 0

\* The support of a child snarl, gathered over its nodes.
ChildSupported(child) ==
    \E n \in ChildNodes(call.layout,
                        CHOOSE k \in ChildItems(call.layout) :
                            ItemLast(k) = call.snarls[child].end.node_id) :
        NodeSupported(n)

InteriorNodes ==
    trav.contents \ {call.site.start.node_id, call.site.end.node_id}

InteriorEdges == contents_edges(call, trav.contents)

Searched(kind, seed) == [kind |-> kind, seed |-> seed] \in trav.searched

LoopsDone == trav.pc \in {"emit", "returned"}

\* C12 as stated: with supports, no bubble is looked for from a node, an
\* edge or a child without support, and one is looked for from every
\* supported interior node off the backbone, every supported interior edge
\* and every supported child off the backbone.
C12_SearchIffSupported ==
    (call.finder = "representative" /\ HasSupports) =>
        /\ \A s \in trav.searched :
              /\ s.kind = "node" => NodeSupported(s.seed[1])
              /\ s.kind = "edge" => EdgeSupported(s.seed)
              /\ s.kind = "child" => ChildSupported(s.seed[1])
        /\ LoopsDone =>
              /\ \A n \in InteriorNodes :
                    (~OnBackbone(n) /\ NodeSupported(n))
                        => Searched("node", <<n>>)
              /\ \A e \in InteriorEdges :
                    EdgeSupported(e) => Searched("edge", e)
              /\ \A p \in children_of(call.layout) :
                    (~OnBackbone(call.snarls[p].start.node_id)
                        /\ ChildSupported(p))
                        => Searched("child", <<p>>)

\* C12: with supports, no bubble is looked for from a node or an edge
\* without support; one is looked for from exactly the supported nodes that
\* are neither on the backbone nor a boundary of a child, from exactly the
\* supported edges with both ends on the backbone, and from every child,
\* whatever its support and wherever it lies.
C12_SearchesFollowSupportAndBackbone ==
    (call.finder = "representative" /\ HasSupports) =>
        /\ \A s \in trav.searched :
              /\ s.kind = "node" =>
                    /\ NodeSupported(s.seed[1])
                    /\ ~OnBackbone(s.seed[1])
                    /\ ~IsChildBoundary(s.seed[1])
              /\ s.kind = "edge" =>
                    /\ EdgeSupported(s.seed)
                    /\ OnBackbone(s.seed[1])
                    /\ OnBackbone(s.seed[2])
        /\ LoopsDone =>
              /\ \A n \in trav.contents :
                    (NodeSupported(n) /\ ~OnBackbone(n)
                        /\ ~IsChildBoundary(n))
                        => Searched("node", <<n>>)
              /\ \A e \in InteriorEdges :
                    (EdgeSupported(e) /\ OnBackbone(e[1]) /\ OnBackbone(e[2]))
                        => Searched("edge", e)
              /\ \A p \in children_of(call.layout) : Searched("child", <<p>>)

\* All three loops have run on a graph with supports: an edge of the
\* backbone without support was passed over, a bubble was looked for from a
\* supported node off the backbone, and an edge leaving the backbone for
\* that node was passed over though it has support.
C12_Witness ==
    /\ call.finder = "representative"
    /\ HasSupports
    /\ trav.pc = "returned"
    /\ \E e \in InteriorEdges :
          /\ OnBackbone(e[1]) /\ OnBackbone(e[2])
          /\ ~EdgeSupported(e)
          /\ ~Searched("edge", e)
    /\ \E n \in InteriorNodes : ~OnBackbone(n) /\ Searched("node", <<n>>)
    /\ \E e \in InteriorEdges :
          /\ ~OnBackbone(e[2])
          /\ EdgeSupported(e)
          /\ ~Searched("edge", e)


(***************************************************************************)
(* Properties of find_bubble and its searches.                             *)
(***************************************************************************)
BubbleHasSupports ==
    has_supports(bubble_call.node_supports, bubble_call.edge_supports)

\* The paths of a search, queued or returned, each from its outermost visit
\* to the seed: those of bfs_right as bfs_left found them.
SearchPaths ==
    SeqRange(bubble.bfs.toExtend)
    \cup {p[2] : p \in bubble.bfs.toReturn}
    \cup SeqRange(bubble.leftPaths)
    \cup {Oriented(p, TRUE) : p \in SeqRange(bubble.rightPaths)}

BubbleNodeSupported(node_id) ==
    total(get_support(bubble_call.node_supports, node_id)) # 0

\* The edge between two visits of a path that follow each other, if any.
EdgeBetween(before, after) ==
    get_edge(bubble_call.edges, to_right_side(before), to_left_side(after))

BubbleEdgeSupported(edge) ==
    total(get_support(bubble_call.edge_supports, edge)) # 0

\* C13, as stated: when the graph has supports, every visit of a search
\* path but the seed is to a node with support, and every edge the path
\* crosses has support, so that no extension through a node or an edge
\* without support is queued.
C13_NoExtensionWithoutSupport ==
    BubbleHasSupports =>
        \A path \in SearchPaths : \A i \in 1..(Len(path) - 1) :
            /\ path[i].node_id # 0 => BubbleNodeSupported(path[i].node_id)
            /\ EdgeBetween(path[i], path[i + 1]) # NoEdge
                    => BubbleEdgeSupported(EdgeBetween(path[i], path[i + 1]))

\* C13, corrected: when the graph has supports, every node visit of a
\* search path but the seed is to a node with support, reached over an edge
\* with support; of a visit to a child snarl, only the boundary node on the
\* side away from the seed is known to have support.
C13_NodeExtensionsHaveSupport ==
    BubbleHasSupports =>
        \A path \in SearchPaths : \A i \in 1..(Len(path) - 1) :
            IF path[i].node_id # 0
            THEN /\ BubbleNodeSupported(path[i].node_id)
                 /\ EdgeBetween(path[i], path[i + 1]) # NoEdge
                 /\ BubbleEdgeSupported(EdgeBetween(path[i], path[i + 1]))
            ELSE BubbleNodeSupported(to_left_side(path[i]).node)

\* The searches have returned paths of more than the seed, on a graph where
\* the edge from the second node off the backbone to the seed has no
\* support, and a path through that node exists in the graph.
C13_Witness ==
    LET n == BubbleNodes
        unsupported == make_edge(Forward(n.second_off), Forward(n.first_off))
    IN /\ BubbleHasSupports
       /\ bubble.pc = "returned"
       /\ bubble_call.seed = NodeSeed(n.first_off)
       /\ {unsupported, make_edge(Forward(n.start), Forward(n.second_off)),
           make_edge(Forward(n.start), Forward(n.first_off))}
                \subseteq bubble_call.edges
       /\ ~BubbleEdgeSupported(unsupported)
       /\ bubble.leftPaths = <<<<Forward(n.start), Forward(n.first_off)>>>>
       /\ bubble.bestBubblePath.second # <<>>

\* A visit on the backbone as a search meets it: a node of the backbone, or
\* a child snarl whose boundary on the side away from the seed is one.
OnBubbleBackbone(visit) ==
    LET on_path == {Backbone(FALSE)[i].node_id : i \in 1..Len(Backbone(FALSE))}
    IN IF visit.node_id # 0 THEN visit.node_id \in on_path
       ELSE to_left_side(visit).node \in on_path

\* The visits within so many steps to the left of some visits.
RECURSIVE WithinLeft(_, _)
WithinLeft(visits, steps) ==
    IF steps = 0 THEN visits
    ELSE WithinLeft(visits \cup UNION {SeqRange(visits_left(bubble_call, v)) :
                                        v \in visits},
                    steps - 1)

\* C14: no path of a search, queued or returned, is more than max_depth
\* steps from the seed; of a returned path only the outermost visit is on
\* the backbone; and when the backbone is more than max_depth steps from the
\* seed, the search returns nothing and find_bubble returns the empty path.
C14_SearchStopsAtMaxDepth ==
    /\ \A path \in SearchPaths : Len(path) - 1 <= bubble_call.max_depth
    /\ \A path \in SeqRange(bubble.leftPaths)
                    \cup {Oriented(p, TRUE) : p \in SeqRange(bubble.rightPaths)} :
            /\ OnBubbleBackbone(path[1])
            /\ \A i \in 2..Len(path) : ~OnBubbleBackbone(path[i])
    /\ (/\ bubble.pc \in {"bfs_right", "combine", "returned"}
        /\ \A v \in WithinLeft({bubble.left_visit}, bubble_call.max_depth) :
                ~OnBubbleBackbone(v))
            => bubble.leftPaths = <<>>
    /\ (bubble.pc = "returned" /\ bubble.leftPaths = <<>>)
            => bubble.bestBubblePath = NoBubblePath

\* find_bubble has returned the empty path for a seed with max_depth 1, the
\* backbone being two steps to its left and one step to its right.
C14_Witness ==
    /\ bubble.pc = "returned"
    /\ bubble_call.max_depth = 1
    /\ bubble_call.seed = NodeSeed(BubbleNodes.first_off)
    /\ \A v \in WithinLeft({bubble.left_visit}, 1) : ~OnBubbleBackbone(v)
    /\ \E v \in WithinLeft({bubble.left_visit}, 2) : OnBubbleBackbone(v)
    /\ bubble.leftPaths = <<>>
    /\ bubble.rightPaths # <<>>
    /\ bubble.bestBubblePath = NoBubblePath

\* C15, as stated: at every point of bfs_left, the paths queued for
\* extension are no more than max_width.
C15_QueueWithinMaxWidth ==
    /\ Len(bubble.bfs.toExtend) = bubble.bfs.stillToExtend
    /\ bubble.bfs.stillToExtend <= bubble_call.max_width

\* C15, corrected: the queue starts with the path of the seed alone,
\* whatever max_width is; beyond that the paths queued for extension,
\* which stillToExtend counts, are no more than max_width.
C15_QueueWithinMaxWidthOrOne ==
    /\ Len(bubble.bfs.toExtend) = bubble.bfs.stillToExtend
    /\ bubble.bfs.stillToExtend
            <= (IF bubble_call.max_width = 0 THEN 1 ELSE bubble_call.max_width)
    /\ bubble.bfs.stillToExtend > bubble_call.max_width
            => bubble.bfs.toExtend \in {<<<<bubble.left_visit>>>>,
                                        <<<<reverse(bubble.right_visit)>>>>}

\* A search with max_width 2 has its queue full, having dropped an
\* extension: the seed has three visits to its left and two are queued.
C15_Witness ==
    /\ bubble.pc = "bfs_left"
    /\ bubble_call.max_width = 2
    /\ Len(visits_left(bubble_call, bubble.left_visit)) = 3
    /\ Len(bubble.bfs.toExtend) = 2
    /\ \A i \in 1..2 : Len(bubble.bfs.toExtend[i]) = 2

\* Where on the backbone a node visit is, and whether it runs against it.
Coordinate(visit) == bubble_call.index.by_id[visit.node_id].first

AgainstBackbone(visit) ==
    visit.backward # bubble_call.index.by_id[visit.node_id].second

NodeIds(path) == {path[i].node_id : i \in 1..Len(path)} \ {0}

ChildSnarls(path) ==
    {path[i].snarl : i \in {j \in 1..Len(path) : path[j].node_id = 0}}

\* The right path of a combination without the copy of the seed it starts
\* with.
RightHalf(rightPath) ==
    IF bubble_call.seed.kind = "edge" THEN rightPath ELSE Tail(rightPath)

\* The left anchor and the right anchor of a combination.
LeftAnchor(combination) == combination.left[1]
RightAnchor(combination) == combination.right[Len(combination.right)]

\* C16: the path find_bubble returns, when not empty, is that of a
\* combination it looked at; every such combination joins a left path and a
\* right path whose anchors are at two different places of the backbone, in
\* the same orientation relative to it, and that share no node and no child
\* snarl apart from the seed; and its path runs along the backbone, from an
\* anchor to an anchor further on, with the visits of the left path and of
\* the right path in between.
C16_BubbleJoinsTwoDisjointHalves ==
    /\ bubble.bestBubblePath.second # <<>> =>
            \E k \in 1..Len(bubble.evaluated) :
                bubble.evaluated[k].path = bubble.bestBubblePath.second
    /\ \A k \in 1..Len(bubble.evaluated) :
        LET combination == bubble.evaluated[k]
            joined == combination.left \o RightHalf(combination.right)
            path == combination.path
        IN /\ \E i \in 1..Len(bubble.leftPaths) :
                    bubble.leftPaths[i] = combination.left
           /\ \E i \in 1..Len(bubble.rightPaths) :
                    bubble.rightPaths[i] = combination.right
           /\ Coordinate(LeftAnchor(combination))
                # Coordinate(RightAnchor(combination))
           /\ AgainstBackbone(LeftAnchor(combination))
                = AgainstBackbone(RightAnchor(combination))
           /\ NodeIds(combination.left)
                \cap NodeIds(RightHalf(combination.right)) = {}
           /\ ChildSnarls(combination.left)
                \cap ChildSnarls(RightHalf(combination.right)) = {}
           /\ path \in {joined, Oriented(joined, TRUE)}
           /\ ~AgainstBackbone(path[1])
           /\ ~AgainstBackbone(path[Len(path)])
           /\ Coordinate(path[1]) < Coordinate(path[Len(path)])

\* find_bubble has returned a path although one left path and one right
\* path, with their anchors apart and in the same orientation, share a node
\* other than the seed.
C16_Witness ==
    /\ bubble.pc = "returned"
    /\ bubble.bestBubblePath.second # <<>>
    /\ \E i \in 1..Len(bubble.leftPaths) : \E j \in 1..Len(bubble.rightPaths) :
        LET pair == [left |-> bubble.leftPaths[i],
                     right |-> bubble.rightPaths[j]]
        IN /\ Coordinate(LeftAnchor(pair)) < Coordinate(RightAnchor(pair))
           /\ AgainstBackbone(LeftAnchor(pair))
                = AgainstBackbone(RightAnchor(pair))
           /\ NodeIds(pair.left) \cap NodeIds(RightHalf(pair.right)) # {}


\* The least of a set of numbers.
Least(numbers) == CHOOSE n \in numbers : \A o \in numbers : n <= o

\* The least support, strand by strand, over the nodes a path visits and
\* the edges it crosses.
PathSupport(path) ==
    LET met == {get_support(bubble_call.node_supports, path[i].node_id) :
                    i \in {j \in 1..Len(path) : path[j].node_id # 0}}
               \cup {get_support(bubble_call.edge_supports,
                                 EdgeBetween(path[i], path[i + 1])) :
                        i \in {j \in 1..(Len(path) - 1) :
                                EdgeBetween(path[j], path[j + 1]) # NoEdge}}
    IN make_support(Least({s.forward : s \in met}),
                    Least({s.reverse : s \in met}),
                    Least({s.quality : s \in met}))

\* C17: of the combinations find_bubble has looked at, the best is the
\* first whose path has the greatest total of the least support along it;
\* there is a best as soon as one combination was looked at, be its support
\* zero; and the support kept with it is that least support, when the seed
\* is not an edge.
C17_BestIsFirstOfGreatestSupport ==
    LET totals == [k \in 1..Len(bubble.evaluated) |->
                        total(PathSupport(bubble.evaluated[k].path))]
    IN IF bubble.evaluated = <<>>
       THEN bubble.bestBubblePath = NoBubblePath
       ELSE \E k \in 1..Len(bubble.evaluated) :
                /\ bubble.bestBubblePath.second = bubble.evaluated[k].path
                /\ \A j \in 1..Len(bubble.evaluated) : totals[j] <= totals[k]
                /\ \A j \in 1..(k - 1) : totals[j] < totals[k]
                /\ bubble_call.seed.kind # "edge"
                    => bubble.bestBubblePath.first
                        = PathSupport(bubble.bestBubblePath.second)

\* find_bubble has returned the second of two combinations, which has more
\* support than the first.
C17_Witness ==
    /\ bubble.pc = "returned"
    /\ Len(bubble.evaluated) = 2
    /\ total(PathSupport(bubble.evaluated[1].path))
        < total(PathSupport(bubble.evaluated[2].path))
    /\ bubble.bestBubblePath.second = bubble.evaluated[2].path

Spliced == 1..Len(splice.results)

WasFound(k) == splice_call.bubbles[k].path # <<>>

\* The right anchor of the k-th bubble is on the reference path, at the left
\* anchor or after it.
AnchoredForward(k) ==
    /\ splice_call.bubbles[k].right # 0
    /\ splice_call.bubbles[k].left <= splice_call.bubbles[k].right

\* The right anchor of the k-th bubble is on the reference path before the
\* left anchor, and the bubble ends with the node by which the reference
\* path enters it.
AnchoredBehind(k) ==
    LET path == splice_call.bubbles[k].path
    IN /\ splice_call.bubbles[k].right # 0
       /\ splice_call.bubbles[k].right < splice_call.bubbles[k].left
       /\ path[Len(path)].node_id # 0

\* The reference path up to the left anchor of the k-th bubble, what the
\* bubble visits between its anchors, and the reference path from the right
\* anchor on; the reference path itself, when the bubble is one visit to a
\* child snarl of it.
SplicedPath(k) ==
    LET found == splice_call.bubbles[k]
    IN IF found.left = found.right THEN splice_call.ref
       ELSE SubSeq(splice_call.ref, 1, found.left)
            \o found.via
            \o SubSeq(splice_call.ref, found.right, Len(splice_call.ref))

\* The paths added for the bubbles before the k-th.
AddedBefore(k) ==
    {splice.results[i].extended_path :
        i \in {j \in 1..(k - 1) : WasFound(j) /\ ~splice.results[j].failed}}

\* C19: the search for the right anchor of a bubble is started over, once,
\* exactly when the anchor is not at or after the left anchor on the
\* reference path; started over, it finds the anchor where it is on the
\* reference path, and the bubble is spliced in there; where the anchor is
\* not found then, the call fails with "Couldn't find ... in backbone
\* path", nothing is added to the set for the bubble, and no seed is looked
\* at after it.
C19_RightAnchorSearchedAgainOnceOrFails ==
    \A k \in Spliced : WasFound(k) =>
        LET result == splice.results[k]
        IN /\ result.restarted = ~AnchoredForward(k)
           /\ result.failed = ~(AnchoredForward(k) \/ AnchoredBehind(k))
           /\ AnchoredBehind(k) => result.extended_path = SplicedPath(k)
           /\ ~result.failed => result.extended_path \in splice.site_traversal_set
           /\ result.failed =>
                /\ result.failure = "Couldn't find in backbone path"
                /\ splice.pc = "failed"
                /\ splice.failure = result.failure
                /\ k = Len(splice.results)
                /\ splice.next = k
                /\ splice.site_traversal_set = AddedBefore(k)

\* A first bubble was spliced in after its right anchor was found on the
\* second search, before the left anchor; the right anchor of a second
\* bubble was found by neither search, and the call failed.
C19_Witness ==
    /\ splice.pc = "failed"
    /\ Len(splice.results) = 2
    /\ WasFound(1)
    /\ splice.results[1].restarted
    /\ ~splice.results[1].failed
    /\ splice.results[2].failed
    /\ splice_call.bubbles[2].right = 0
    /\ splice.site_traversal_set = {splice.results[1].extended_path}

\* How many visits of a path have a frontier on one side.
Occurrences(path, frontier, left_side) ==
    Cardinality({i \in 1..Len(path) :
                    frontier_visit(path[i], left_side) = frontier})

\* C20: a bubble spliced in gives the reference path up to the left anchor,
\* then what the bubble visits between its anchors, then the reference path
\* from the right anchor on, from the first visit of the reference path to
\* its last; and when the bubble runs along the reference path, each anchor
\* is there once: as the bubble's visit or, for the boundary of a child
\* snarl of the reference path, as the visit to that child.
C20_SplicedPathKeepsEachAnchorOnce ==
    \A k \in Spliced : (WasFound(k) /\ ~splice.results[k].failed) =>
        LET extended_path == splice.results[k].extended_path
            path == splice_call.bubbles[k].path
            ref == splice_call.ref
        IN /\ extended_path = SplicedPath(k)
           /\ extended_path[1] = ref[1]
           /\ extended_path[Len(extended_path)] = ref[Len(ref)]
           /\ AnchoredForward(k) =>
                /\ Occurrences(extended_path,
                               frontier_visit(path[1], FALSE), FALSE) = 1
                /\ Occurrences(extended_path,
                               frontier_visit(path[Len(path)], TRUE), TRUE) = 1
                /\ \A i \in 1..Len(extended_path) :
                        extended_path[i].node_id = 0
                            => extended_path[i] \in SeqRange(ref)

\* A bubble was spliced in that leaves the reference path at the end node of
\* one child snarl, visits a node off the path and joins the path at the
\* start node of another child snarl: both visits to the children are kept
\* and neither boundary node is visited beside them.
C20_Witness ==
    \E k \in Spliced :
        LET found == splice_call.bubbles[k]
        IN /\ WasFound(k)
           /\ ~splice.results[k].failed
           /\ found.left < found.right
           /\ Len(found.path) = 3
           /\ \A i \in 1..3 : found.path[i].node_id # 0
           /\ splice_call.ref[found.left].node_id = 0
           /\ splice_call.ref[found.right].node_id = 0
           /\ Len(splice.results[k].extended_path) = Len(splice_call.ref) + 1

(***************************************************************************)
(* Further properties of the representative traversal finder.              *)
(***************************************************************************)
\* The seeds the three loops hand to find_bubble.
IsNodeSeed(n) ==
    /\ into_which_snarl_at(call.snarls, n, TRUE) = nullptr
    /\ into_which_snarl_at(call.snarls, n, FALSE) = nullptr
    /\ ~IsUnsupported(call, call.node_supports, n)
    /\ n \notin DOMAIN trav.index.by_id

IsEdgeSeed(e) ==
    /\ ~IsUnsupported(call, call.edge_supports, e)
    /\ e[1] \in DOMAIN trav.index.by_id
    /\ e[2] \in DOMAIN trav.index.by_id

\* A call of find_bubble: an iteration of one of the three loops that gets
\* as far as the search.
FindBubbleCalled == trav'.searched # trav.searched

\* C21: an empty path from find_bubble costs the finder only that seed: the
\* iteration changes nothing but the seeds left and raises no error, every
\* node, edge and child seed is still searched, and the finder returns the
\* reference traversal followed by the alternates of the set.
C21_EmptyBubbleDropsOnlyItsSeed ==
    /\ [][(call.finder = "representative" /\ FindBubbleCalled
                /\ trav'.path = <<>>) =>
            trav' = [trav EXCEPT !.seeds = Tail(@),
                                 !.searched = trav'.searched,
                                 !.path = <<>>]]_vars
    /\ [](call.finder = "representative" =>
            /\ LoopsDone =>
                  /\ \A n \in trav.contents :
                        IsNodeSeed(n) => Searched("node", <<n>>)
                  /\ \A e \in InteriorEdges :
                        IsEdgeSeed(e) => Searched("edge", e)
                  /\ \A p \in children_of(call.layout) :
                        Searched("child", <<p>>)
            /\ trav.pc = "returned" =>
                  LET backward == trav.site_start > trav.site_end
                      returned == trav.unique_traversals
                  IN /\ trav.failure = ""
                     /\ returned[1] = emit_traversal(trav.ref_path_for_site,
                                                     backward)
                     /\ {returned[i] : i \in 2..Len(returned)} =
                            {emit_traversal(v, backward) :
                                v \in trav.site_traversal_set
                                        \ {trav.ref_path_for_site}})

\* The finder has returned the alternate of one seed although the last seed
\* it searched from had no path.
C21_Witness ==
    /\ call.finder = "representative"
    /\ trav.pc = "returned"
    /\ Cardinality(trav.searched) >= 2
    /\ trav.path = <<>>
    /\ Len(trav.unique_traversals) >= 2

(***************************************************************************)
(* Properties of the representative finder on the diamond.                 *)
(***************************************************************************)
DiamondVisits(nodes) == [i \in 1..Len(nodes) |-> NodeVisit(nodes[i], FALSE)]

ThroughB ==
    DiamondVisits(<<DiamondNodes.A, DiamondNodes.B, DiamondNodes.D>>)

ThroughC ==
    DiamondVisits(<<DiamondNodes.A, DiamondNodes.C, DiamondNodes.D>>)

DiamondReturned ==
    /\ call.finder = "representative"
    /\ call.layout = DiamondLayout
    /\ call.allele = DiamondAllele
    /\ trav.pc = "returned"

\* The supports of the scenario: five reads on A->B and on B->D, none on
\* A->C and on C->D.
DiamondScenario ==
    /\ total(get_support(call.edge_supports,
                         <<DiamondNodes.A, DiamondNodes.B>>)) = 5
    /\ total(get_support(call.edge_supports,
                         <<DiamondNodes.B, DiamondNodes.D>>)) = 5
    /\ total(get_support(call.edge_supports,
                         <<DiamondNodes.A, DiamondNodes.C>>)) = 0
    /\ total(get_support(call.edge_supports,
                         <<DiamondNodes.C, DiamondNodes.D>>)) = 0

AllSupportsZero ==
    /\ \A n \in DOMAIN call.node_supports : total(call.node_supports[n]) = 0
    /\ \A e \in DOMAIN call.edge_supports : total(call.edge_supports[e]) = 0

\* C22 as stated: in the scenario the finder returns [A,B,D] and then
\* [A,C,D], and on the diamond [A,C,D] is missing only when all the supports
\* are zero.
C22_DiamondEmitsBothTraversals ==
    DiamondReturned =>
        /\ DiamondScenario => trav.unique_traversals = <<ThroughB, ThroughC>>
        /\ (\A i \in 1..Len(trav.unique_traversals) :
                trav.unique_traversals[i] # ThroughC) => AllSupportsZero

\* The reads that let the search from C reach the backbone on both sides:
\* on C, on A and D, and on the two edges of C.
ThroughCSupported ==
    /\ \A n \in {DiamondNodes.A, DiamondNodes.C, DiamondNodes.D} :
          NodeSupported(n)
    /\ EdgeSupported(<<DiamondNodes.A, DiamondNodes.C>>)
    /\ EdgeSupported(<<DiamondNodes.C, DiamondNodes.D>>)

\* C22: on the diamond the finder returns [A,B,D] first; [A,C,D] follows it
\* when no supports are loaded or when C, A, D and both edges of C have
\* reads, and otherwise nothing follows it: in the scenario, with no reads
\* on A->C and C->D, [A,B,D] is returned alone.
C22_DiamondAlternateNeedsSupport ==
    DiamondReturned =>
        /\ trav.unique_traversals =
                IF ~HasSupports \/ ThroughCSupported
                THEN <<ThroughB, ThroughC>>
                ELSE <<ThroughB>>
        /\ DiamondScenario => trav.unique_traversals = <<ThroughB>>

\* The finder has returned on the scenario, with reads on every node: the
\* search from C was made and no alternate came of it.
C22_Witness ==
    /\ DiamondReturned
    /\ DiamondScenario
    /\ \A n \in {DiamondNodes.A, DiamondNodes.B, DiamondNodes.C,
                 DiamondNodes.D} : NodeSupported(n)
    /\ Searched("node", <<DiamondNodes.C>>)
    /\ trav.unique_traversals = <<ThroughB>>

(***************************************************************************)
(* Properties of reversal.                                                 *)
(***************************************************************************)
\* A sequence of visits run the other way: the order reversed and every
\* visit flipped.
Mirror(visits) ==
    [i \in 1..Len(visits) |-> reverse(visits[Len(visits) + 1 - i])]

\* The paths the state of find_bubble holds.
HeldPaths ==
    {bubble.leftPaths[i] : i \in 1..Len(bubble.leftPaths)}
    \cup {bubble.rightPaths[i] : i \in 1..Len(bubble.rightPaths)}
    \cup {bubble.bfs.toExtend[i] : i \in 1..Len(bubble.bfs.toExtend)}
    \cup {p[2] : p \in bubble.bfs.toReturn}
    \cup {bubble.bestBubblePath.second}

\* C23: a visit reversed twice is the visit, a sequence of visits mirrored
\* twice is the sequence, and what bfs_right returns for a visit is the set
\* of the mirrored paths bfs_left returned for the reversed visit, each
\* starting with the visit.
C23_ReversalRoundTrips ==
    /\ [](\A path \in HeldPaths :
            /\ \A i \in 1..Len(path) :
                  /\ reverse(reverse(path[i])) = path[i]
                  /\ reverse(path[i]) # path[i]
            /\ Mirror(Mirror(path)) = path
            /\ Oriented(Oriented(path, TRUE), TRUE) = path
            /\ emit_traversal(emit_traversal(path, TRUE), TRUE) = path)
    /\ [][(bubble.pc = "bfs_right" /\ bubble'.pc = "combine") =>
            /\ reverse(bubble.right_visit) \in bubble.bfs.alreadyQueued
            /\ {bubble'.rightPaths[i] : i \in 1..Len(bubble'.rightPaths)} =
                    {Mirror(p[2]) : p \in bubble.bfs.toReturn}
            /\ Len(bubble'.rightPaths) = Cardinality(bubble.bfs.toReturn)
            /\ \A i \in 1..Len(bubble'.rightPaths) :
                  bubble'.rightPaths[i][1] = bubble.right_visit]_vars

\* bfs_right has returned two paths or more, one through a child snarl to a
\* node visited backward.
C23_Witness ==
    /\ bubble.pc = "combine"
    /\ Len(bubble.rightPaths) >= 2
    /\ \E i \in 1..Len(bubble.rightPaths) :
          LET path == bubble.rightPaths[i]
          IN /\ path[1] = bubble.right_visit
             /\ \E j \in 1..Len(path) : path[j].node_id = 0
             /\ \E j \in 1..Len(path) : path[j].backward

(***************************************************************************)
(* Properties of the arithmetic of Supports.                               *)
(***************************************************************************)
SupportFields == {"forward", "reverse", "left", "right", "quality"}

\* C24: support_min and support_max return the minimum and the maximum of
\* the two Supports in each of the five fields, operator+ their sum in each
\* of the five fields, and total is forward + reverse.
C24_SupportArithmeticOverEveryField ==
    /\ arith.called = "support_min" =>
        \A f \in SupportFields :
            arith.returned[f] = Min(arith.a[f], arith.b[f])
    /\ arith.called = "support_max" =>
        \A f \in SupportFields :
            arith.returned[f] = Max(arith.a[f], arith.b[f])
    /\ arith.called = "operator+" =>
        \A f \in SupportFields : arith.returned[f] = arith.a[f] + arith.b[f]
    /\ arith.called = "total" =>
        arith.number = arith.a.forward + arith.a.reverse

(***************************************************************************)
(* Properties of advance_split.                                            *)
(***************************************************************************)
\* C25: advance_split either changes the counts to a different sequence of
\* the same length and total and returns true, or leaves them unchanged and
\* returns false; it reads and writes nothing outside the counts.
C25_AdvanceSplitNextOrUnchanged ==
    split.pc \in {"returned", "crashed"} =>
        /\ ~split.out_of_range
        /\ split.returned =>
            /\ split.categories # split.before
            /\ Len(split.categories) = Len(split.before)
            /\ Sum(split.categories) = Sum(split.before)
        /\ ~split.returned => split.categories = split.before

(***************************************************************************)
(* Properties of multinomial_censored_sampling_prob_ln.                    *)
(***************************************************************************)
\* The splits of n items over k categories.
SplitsOf(k, n) == {s \in [1..k -> 0..n] : Sum(s) = n}

\* Every combination of one split per class.
Combinations(obs) ==
    {c \in [1..Len(obs) -> UNION {SplitsOf(set_bits(obs[i].flags), obs[i].count) : i \in 1..Len(obs)}] :
        \A i \in 1..Len(obs) :
            c[i] \in SplitsOf(set_bits(obs[i].flags), obs[i].count)}

RECURSIVE Observed(_)
Observed(obs) == IF obs = <<>> THEN 0 ELSE Head(obs).count + Observed(Tail(obs))

\* C30: the enumeration loop ends, having emitted every combination of
\* splits once and none twice; every split handed to multinomial_choose_ln
\* sums to its class's count, and the category counts emitted sum to the
\* number of observations.
C30_EnumerationVisitsEachCombinationOnce ==
    /\ ~sampling.emitted_again
    /\ sampling.pc = "done" => sampling.emitted = Combinations(sampling.obs)
    /\ sampling.bucket_sum_is_n
    /\ sampling.pc = "emit" =>
        Sum(sampling.category_counts) = Observed(sampling.obs)

(***************************************************************************)
(* Properties of the exhaustive finder.                                    *)
(***************************************************************************)
AsIs(visit) == <<visit.node_id, visit.backward>>

Flipped(visit) == <<visit.node_id, ~visit.backward>>

\* C26: what the search goes on from after entering a child snarl is gated
\* by the child's flags: entered at the start, the child's end if
\* start_end_reachable and the reversed start if start_self_reachable;
\* entered at the end, the reversed start if start_end_reachable and the
\* reversed end if end_self_reachable; nothing else, so nothing at all with
\* the three flags false.
C26_ChildExitsGatedByFlags ==
    exhaustive.entry.side # "none" =>
        LET child == exhaustive.snarls[exhaustive.entry.snarl]
            pushed == exhaustive.entry.pushed
        IN \A i \in DOMAIN pushed :
            IF exhaustive.entry.side = "start"
            THEN \/ pushed[i] = AsIs(child.end) /\ child.start_end_reachable
                 \/ /\ pushed[i] = Flipped(child.start)
                    /\ child.start_self_reachable
            ELSE \/ /\ pushed[i] = Flipped(child.start)
                    /\ child.start_end_reachable
                 \/ pushed[i] = Flipped(child.end) /\ child.end_self_reachable

(***************************************************************************)
(* Properties of the path-based finder.                                    *)
(***************************************************************************)
\* C27: for a snarl that is not an ultrabubble, unary or unclassified, the
\* path-based finder builds no traversal and returns none.
C27_NonUltrabubbleGetsNoTraversals ==
    path_finder.type # "ULTRABUBBLE" => path_finder.ret = <<>>

(***************************************************************************)
(* Properties of the finder with its searches, on sites with children.     *)
(***************************************************************************)
\* Where the scan for the left anchor of the last bubble path stops.
LeftAnchorIndex == LeftScan(trav.ref_path_for_site, trav.path, 1)

\* C28: for every non-empty bubble path find_bubble returns, the scan of
\* extend_into_allele for its left anchor stops at a visit of the reference
\* path: ref_path_for_site is not read past its end.
C28_LeftAnchorIsOnReferencePath ==
    /\ trav.failure # "ref_path_for_site read past its end"
    /\ trav.path # <<>> => LeftAnchorIndex <= Len(trav.ref_path_for_site)

\* A bubble path that starts on the end node of a child snarl has been
\* spliced in at the child Visit of the reference path.
C28_Witness ==
    /\ trav.path # <<>>
    /\ trav.pc # "failed"
    /\ trav.path[1].node_id # 0
    /\ LeftAnchorIndex <= Len(trav.ref_path_for_site)
    /\ trav.ref_path_for_site[LeftAnchorIndex].node_id = 0
    /\ Cardinality(trav.site_traversal_set) > 1

(***************************************************************************)
(* Properties of the termination of bfs_left.                              *)
(***************************************************************************)
\* The paths a step has put on the queue.
NewlyQueued ==
    {bubble'.bfs.toExtend[i] :
        i \in Len(bubble.bfs.toExtend)..Len(bubble'.bfs.toExtend)}

BfsRuns == bubble.pc \in {"bfs_left", "bfs_right"}

\* C29: bfs_left, called without stopIfVisited, ends on every graph, with
\* cycles or without, for every max_depth and max_width: a path put on the
\* queue is one visit longer than the path taken off for it, no path on the
\* queue has more than max_depth + 1 visits, no path falls through to the
\* branch of assert(false), and the queue empties in the end.
C29_BfsLeftTerminates ==
    /\ [][(BfsRuns /\ bubble'.pc = bubble.pc) =>
            \A path \in NewlyQueued :
                Len(path) = Len(Head(bubble.bfs.toExtend)) + 1]_vars
    /\ [](BfsRuns =>
            /\ ~bubble.bfs.stopIfVisited
            /\ ~bubble.bfs.unhandled
            /\ \A i \in DOMAIN bubble.bfs.toExtend :
                    Len(bubble.bfs.toExtend[i]) <= bubble_call.max_depth + 1)
    /\ [](BfsRuns => <>(bubble.bfs.toExtend = <<>>))

\* bfs_left has gone round a cycle of the graph as far as max_depth lets
\* it: a path on its queue visits a node twice and has max_depth + 1 visits.
C29_Witness ==
    /\ bubble.pc = "bfs_left"
    /\ \E i \in DOMAIN bubble.bfs.toExtend :
        LET path == bubble.bfs.toExtend[i]
        IN /\ Len(path) = bubble_call.max_depth + 1
           /\ \E a, b \in DOMAIN path : a # b /\ path[a] = path[b]
====
